---- MODULE Spec2Model ----
(***************************************************************************)
(* Verification model of the validation-and-audit core of pipe-audit:      *)
(*   - the audit ledger (daily JSONL shards, sealing into the encrypted    *)
(*     hash ledger, verification), and                                     *)
(*   - the run-level orchestrator (fetch, validate, route, log).           *)
(*                                                                         *)
(* Text is modelled as sequences of one-character strings, so that the     *)
(* code's starts_with / ends_with / contains / lines / split_whitespace    *)
(* are computed rather than assumed.  Two pieces of text are kept as one   *)
(* atomic symbol each: the time-of-day part of an RFC 3339 timestamp and   *)
(* the 64 hex digits of a SHA-256 digest (neither contains white space,    *)
(* a newline or a letter of a shard name).  SHA-256 is idealised as        *)
(* collision free: the digest symbol is a printable rendering of the       *)
(* bytes it was computed from.                                             *)
(***************************************************************************)
EXTENDS Integers, Sequences, FiniteSets, TLC

VARIABLES
    clock,          \* the UTC day Utc::now() currently falls in
    logsDirExists,  \* whether logs/ exists
    logsDir,        \* audit shards in logs/: file name -> bytes (sequence of JSON lines)
    ledgerFile,     \* logs/hash_ledger.enc: [exists, nonce, ciphertext]
    sealedBytes,    \* history: file name -> bytes hashed when its record was appended
    tampered,       \* history: names of shards rewritten from outside the program
    summary,        \* the VerificationSummary the operation just completed returned
    run,            \* the orchestrator run in progress
    call,           \* a library function applied on its own: its arguments and result
    writers         \* processes inside a seal cycle: position and private copies

vars ==
    <<clock, logsDirExists, logsDir, ledgerFile, sealedBytes, tampered, summary, run,
      call, writers>>

ledgerVars == <<clock, logsDirExists, logsDir, ledgerFile, sealedBytes, tampered, summary>>

-----------------------------------------------------------------------------
(* Bounds *)

MaxDay == 3        \* days the clock runs through
MaxLines == 1      \* lines one shard may receive from stand-alone log events
MaxRules == 1      \* rule results one validation may produce

Days == 1..MaxDay

Nonces == {0, 1}   \* stand-ins for the random 12-byte nonce

-----------------------------------------------------------------------------
(* Text *)

Str1(c) == <<c>>

StartsWith(s, p) == Len(p) <= Len(s) /\ SubSeq(s, 1, Len(p)) = p

EndsWith(s, p) == Len(p) <= Len(s) /\ SubSeq(s, Len(s) - Len(p) + 1, Len(s)) = p

StrContains(s, p) ==
    \/ p = <<>>
    \/ \E i \in 0..(Len(s) - Len(p)) :
          s[i + 1] = p[1] /\ SubSeq(s, i + 1, i + Len(p)) = p

FirstIndex(s, c) ==
    IF \E i \in 1..Len(s) : s[i] = c
    THEN CHOOSE i \in 1..Len(s) : s[i] = c /\ \A j \in 1..(i - 1) : s[j] # c
    ELSE 0

RECURSIVE Lines(_)
Lines(s) ==
    IF s = <<>> THEN <<>>
    ELSE LET k == FirstIndex(s, "\n")
         IN  IF k = 0 THEN <<s>>
             ELSE <<SubSeq(s, 1, k - 1)>> \o Lines(SubSeq(s, k + 1, Len(s)))

IsWhitespace(c) == c \in {" ", "\n", "\t"}

RECURSIVE SplitWhitespace(_)
SplitWhitespace(s) ==
    IF s = <<>> THEN <<>>
    ELSE IF IsWhitespace(s[1]) THEN SplitWhitespace(Tail(s))
    ELSE LET ws == {i \in 1..Len(s) : IsWhitespace(s[i])}
             k  == IF ws = {} THEN Len(s) + 1
                   ELSE CHOOSE i \in ws : \A j \in ws : i <= j
         IN  <<SubSeq(s, 1, k - 1)>> \o SplitWhitespace(SubSeq(s, k, Len(s)))

DigitChar(n) == <<"0", "1", "2", "3", "4", "5", "6", "7", "8", "9">>[n + 1]

(* Utc::now().format("%Y-%m-%d"): day d of the modelled month; day 0 is the *)
(* last day of the month before.                                            *)
DateStr(d) ==
    IF d = 0 THEN <<"2", "0", "2", "5", "-", "0", "9", "-", "3", "0">>
    ELSE <<"2", "0", "2", "5", "-", "1", "0", "-">>
         \o <<DigitChar(d \div 10), DigitChar(d % 10)>>

(* Mutant: a timestamp format with a space between date and time. *)
Rfc3339_WithSpace(d) == DateStr(d) \o <<" ", "12:00:00+00:00">>

(* Utc::now().to_rfc3339() *)
Rfc3339(d) == DateStr(d) \o <<"T", "12:00:00+00:00">>

AuditPrefix == <<"a", "u", "d", "i", "t", "-">>

JsonlSuffix == <<".", "j", "s", "o", "n", "l">>

(* format!("audit-{}.jsonl", today) *)
LogFilename(d) == AuditPrefix \o DateStr(d) \o JsonlSuffix

(* file name of LEDGER_PATH inside logs/ *)
LedgerName ==
    <<"h", "a", "s", "h", "_", "l", "e", "d", "g", "e", "r", ".", "e", "n", "c">>

-----------------------------------------------------------------------------
(* Ledger file *)

NoFile == [exists |-> FALSE, nonce |-> 0, ciphertext |-> <<0, <<>>>>]

(* AES-256-GCM under the one ledger key: the ciphertext authenticates the  *)
(* plaintext together with the nonce it was produced under.                *)
AesGcmEncrypt(nonce, plaintext) == <<nonce, plaintext>>

AesGcmDecrypt(nonce, ciphertext) == ciphertext[2]

(* Mutant: a digest that depends on the length of the file only. *)
compute_sha256_LengthOnly(bytes) == Str1("sha256:" \o ToString(Len(bytes)))

compute_sha256(bytes) == Str1("sha256:" \o ToString(bytes))

(* Mutant: the read returns nothing, whatever the file holds. *)
read_ledger_plaintext_Empty(lf) == <<>>

read_ledger_plaintext(lf) ==
    IF ~lf.exists THEN <<>> ELSE AesGcmDecrypt(lf.nonce, lf.ciphertext)

write_ledger_plaintext(plaintext, nonce) ==
    [exists |-> TRUE, nonce |-> nonce, ciphertext |-> AesGcmEncrypt(nonce, plaintext)]

LedgerLine(now, filename, hash) ==
    Rfc3339(now) \o <<" ">> \o filename \o <<" ">> \o hash \o <<"\n">>

(* Mutant: the new line replaces the ledger instead of extending it. *)
append_to_ledger_Overwrite(lf, filename, hash, now, nonce) ==
    write_ledger_plaintext(LedgerLine(now, filename, hash), nonce)

append_to_ledger(lf, filename, hash, now, nonce) ==
    write_ledger_plaintext(
        read_ledger_plaintext(lf) \o LedgerLine(now, filename, hash), nonce)

(* Mutant: haystack and needle exchanged. *)
ledger_contains_Swapped(lf, filename) == StrContains(filename, read_ledger_plaintext(lf))

ledger_contains(lf, filename) == StrContains(read_ledger_plaintext(lf), filename)

(* The files read_dir(logs/) yields. *)
DirEntries(dir, lf) == DOMAIN dir \cup (IF lf.exists THEN {LedgerName} ELSE {})

(* read_dir yields the entries in an order the platform chooses. *)
RECURSIVE Orders(_)
Orders(S) ==
    IF S = {} THEN {<<>>}
    ELSE UNION {{<<x>> \o o : o \in Orders(S \ {x})} : x \in S}

(* Mutant: today's shard is not skipped. *)
SealCandidates_WithToday(dir, lf, today) ==
    {fname \in DirEntries(dir, lf) :
        StartsWith(fname, AuditPrefix) /\ EndsWith(fname, JsonlSuffix)}

(* The entries of logs/ the loop of seal_unsealed_logs does not skip on    *)
(* their name alone: audit-*.jsonl files whose name does not contain today. *)
SealCandidates(dir, lf, today) ==
    {fname \in DirEntries(dir, lf) :
        /\ StartsWith(fname, AuditPrefix)
        /\ EndsWith(fname, JsonlSuffix)
        /\ ~StrContains(fname, DateStr(today))}

(* The loop of seal_unsealed_logs over the candidates, in the order `order` *)
(* the directory lists them in.  All appends of one call are given the same *)
(* nonce: every append overwrites the whole file, so only the last nonce    *)
(* drawn is in the file afterwards.                                         *)
(* The result is the ledger file together with the names of the files the  *)
(* loop hashed and appended a record for.                                   *)
RECURSIVE seal_loop(_, _, _, _, _, _)
seal_loop(order, lf, appended, dir, now, nonce) ==
    IF order = <<>> THEN [lf |-> lf, appended |-> appended]
    ELSE LET fname == Head(order)
         IN  IF ledger_contains(lf, fname)
             THEN seal_loop(Tail(order), lf, appended, dir, now, nonce)
             ELSE seal_loop(Tail(order),
                            append_to_ledger(lf, fname, compute_sha256(dir[fname]), now, nonce),
                            appended \cup {fname}, dir, now, nonce)

(* Every outcome seal_unsealed_logs(logs_dir, today) can have. *)
seal_unsealed_logs(lf, dir, today, nonce) ==
    {seal_loop(order, lf, {}, dir, today, nonce) :
        order \in Orders(SealCandidates(dir, lf, today))}

(* The records of a ledger plaintext: one sequence of fields per line. *)
LedgerRecords(plaintext) ==
    LET ls == Lines(plaintext) IN [i \in 1..Len(ls) |-> SplitWhitespace(ls[i])]

RecordedNames(lf) ==
    LET rs == LedgerRecords(read_ledger_plaintext(lf))
    IN  {rs[i][2] : i \in {j \in 1..Len(rs) : Len(rs[j]) >= 3}}

(* History of what was hashed: the bytes of the shards a seal appended a   *)
(* record for (the first such bytes, should a shard be hashed again).      *)
SealedBytesAfter(appended, dir) ==
    [f \in DOMAIN sealedBytes \cup appended |->
        IF f \in DOMAIN sealedBytes THEN sealedBytes[f] ELSE dir[f]]

-----------------------------------------------------------------------------
(* Verification *)

None == <<>>

Some(x) == <<x>>

NewSummary ==
    [verified |-> 0, mismatched |-> 0, missing |-> 0, malformed |-> 0,
     unsealed |-> 0, files |-> <<>>]

FileVerification(filename, status, stored_hash, computed_hash) ==
    [filename |-> filename, status |-> status,
     stored_hash |-> stored_hash, computed_hash |-> computed_hash]

(* summary.<status> += 1; summary.files.push(fv) *)
Push(s, fv) ==
    [verified   |-> s.verified   + (IF fv.status = "Verified"   THEN 1 ELSE 0),
     mismatched |-> s.mismatched + (IF fv.status = "Mismatched" THEN 1 ELSE 0),
     missing    |-> s.missing    + (IF fv.status = "Missing"    THEN 1 ELSE 0),
     malformed  |-> s.malformed  + (IF fv.status = "Malformed"  THEN 1 ELSE 0),
     unsealed   |-> s.unsealed   + (IF fv.status = "Unsealed"   THEN 1 ELSE 0),
     files      |-> Append(s.files, fv)]

(* The bytes of a file of logs/. *)
FileBytes(name, dir, lf) ==
    IF name \in DOMAIN dir THEN dir[name] ELSE <<lf.nonce, lf.ciphertext>>

(* verify_all, step 1: the ledger lines, malformed ones reported at once,  *)
(* the others inserted into the map filename -> stored_hash (a later line  *)
(* for the same name replaces an earlier one).                             *)
RECURSIVE ReadLedgerLines(_, _, _)
ReadLedgerLines(ls, s, sealed_files) ==
    IF ls = <<>> THEN [summary |-> s, sealed_files |-> sealed_files]
    ELSE LET line  == Head(ls)
             parts == SplitWhitespace(line)
         IN  IF Len(parts) < 3
             THEN ReadLedgerLines(Tail(ls),
                      Push(s, FileVerification(line, "Malformed", None, None)),
                      sealed_files)
             ELSE ReadLedgerLines(Tail(ls), s,
                      [f \in DOMAIN sealed_files \cup {parts[2]} |->
                          IF f = parts[2] THEN parts[3] ELSE sealed_files[f]])

(* read_dir and the HashMap yield their elements in an order the platform  *)
(* chooses.  The model lists them in one fixed order and the summary is    *)
(* compared up to the order of `files` (see Returned).                     *)
RECURSIVE Listing(_)
Listing(S) ==
    IF S = {} THEN <<>>
    ELSE LET x == CHOOSE y \in S : TRUE IN <<x>> \o Listing(S \ {x})

(* Mutant: the names left in the map are not reported. *)
PushMissing_Dropped(mapOrder, s, sealed_files) == s

(* verify_all, steps 2 and 4: what is left in the map is missing. *)
RECURSIVE PushMissing(_, _, _)
PushMissing(mapOrder, s, sealed_files) ==
    IF mapOrder = <<>> THEN s
    ELSE LET f == Head(mapOrder)
         IN  PushMissing(Tail(mapOrder),
                 Push(s, FileVerification(f, "Missing", Some(sealed_files[f]), None)),
                 sealed_files)

(* verify_all, step 3: every file of logs/, in directory order. *)
RECURSIVE VerifyDirEntries(_, _, _, _, _)
VerifyDirEntries(order, s, sealed_files, dir, lf) ==
    IF order = <<>> THEN [summary |-> s, sealed_files |-> sealed_files]
    ELSE LET filename      == Head(order)
             computed_hash == compute_sha256(FileBytes(filename, dir, lf))
         IN  IF filename \in DOMAIN sealed_files
             THEN VerifyDirEntries(Tail(order),
                      Push(s, FileVerification(filename,
                                  IF sealed_files[filename] = computed_hash
                                  THEN "Verified" ELSE "Mismatched",
                                  Some(sealed_files[filename]), Some(computed_hash))),
                      [f \in DOMAIN sealed_files \ {filename} |-> sealed_files[f]],
                      dir, lf)
             ELSE VerifyDirEntries(Tail(order),
                      Push(s, FileVerification(filename, "Unsealed", None,
                                               Some(computed_hash))),
                      sealed_files, dir, lf)

(* verify_all of pipa-core. *)
verify_all(dirExists, dir, lf) ==
    LET ledger_plaintext == read_ledger_plaintext(lf)
        step1 == ReadLedgerLines(Lines(ledger_plaintext), NewSummary, <<>>)
    IN  IF ~dirExists
        THEN PushMissing(Listing(DOMAIN step1.sealed_files), step1.summary,
                         step1.sealed_files)
        ELSE LET step3 == VerifyDirEntries(Listing(DirEntries(dir, lf)), step1.summary,
                                            step1.sealed_files, dir, lf)
             IN  PushMissing(Listing(DOMAIN step3.sealed_files), step3.summary,
                             step3.sealed_files)

(* The date argument of verify_date: Some(valid date), None, or a string   *)
(* NaiveDate::parse_from_str rejects.                                      *)
DateArgs ==
    {[kind |-> "some", day |-> d] : d \in Days}
        \cup {[kind |-> "none", day |-> 0], [kind |-> "bad", day |-> 0]}

FirstLineContaining(ls, needle) ==
    LET hits == {i \in 1..Len(ls) : StrContains(ls[i], needle)}
    IN  IF hits = {} THEN 0 ELSE CHOOSE i \in hits : \A j \in hits : i <= j

verify_date(date, today, dirExists, dir, lf) ==
    IF ~dirExists \/ date.kind = "bad" THEN NewSummary
    ELSE LET target_date      == IF date.kind = "some" THEN date.day ELSE today - 1
             log_filename     == LogFilename(target_date)
             ledger_plaintext == read_ledger_plaintext(lf)
             ls               == Lines(ledger_plaintext)
             hit              == FirstLineContaining(ls, log_filename)
         IN  IF ledger_plaintext = <<>> THEN NewSummary
             ELSE IF log_filename \notin DOMAIN dir
             THEN Push(NewSummary, FileVerification(log_filename, "Missing", None, None))
             ELSE IF hit = 0
             THEN Push(NewSummary, FileVerification(log_filename, "Unsealed", None, None))
             ELSE LET parts == SplitWhitespace(ls[hit])
                  IN  IF Len(parts) < 3
                      THEN Push(NewSummary,
                               FileVerification(log_filename, "Malformed", None, None))
                      ELSE LET stored_hash   == parts[3]
                               computed_hash == compute_sha256(dir[log_filename])
                           IN  Push(NewSummary,
                                   FileVerification(log_filename,
                                       IF stored_hash = computed_hash
                                       THEN "Verified" ELSE "Mismatched",
                                       Some(stored_hash), Some(computed_hash)))

(* The summary as the caller holds it.  The order of `files` follows the   *)
(* platform's directory and hash-map order, so the list is kept up to      *)
(* order: each FileVerification with the number of times it occurs.        *)
Returned(s) ==
    [verified |-> s.verified, mismatched |-> s.mismatched, missing |-> s.missing,
     malformed |-> s.malformed, unsealed |-> s.unsealed,
     files |-> [fv \in {s.files[i] : i \in 1..Len(s.files)} |->
                   Cardinality({i \in 1..Len(s.files) : s.files[i] = fv})]]

-----------------------------------------------------------------------------
(* Audit log entries.  One entry is one JSON line of a shard. *)

AuditLogEntry(event, results) == [event |-> event, results |-> results]

(* Events logged outside a contract run (engine/logging.rs). *)
OtherEvents == {"health_check"}

(* A line written into a shard from outside the program. *)
Forged == AuditLogEntry("forged", None)

(* -- the orchestrator's data -- *)

RuleStatuses == {"pass", "fail", "skipped"}

(* A RuleResult, reduced to the field the orchestrator reads. *)
RuleResult(result) == [result |-> result]

ValidationOutcome(passed, pass_count, fail_count, results) ==
    [passed |-> passed, pass_count |-> pass_count, fail_count |-> fail_count,
     results |-> results]

Source(type, location) == [type |-> type, location |-> location]

Destination(type) == [type |-> type]

SchemaContracts(source, destination, quarantine) ==
    [source |-> source, destination |-> destination, quarantine |-> quarantine]

NoContract == SchemaContracts(None, None, None)

NoResult == [kind |-> "none", outcome |-> ValidationOutcome(FALSE, 0, 0, <<>>), error |-> ""]

Ok(outcome) == [kind |-> "Ok", outcome |-> outcome, error |-> ""]

Err(error) == [kind |-> "Err", outcome |-> ValidationOutcome(FALSE, 0, 0, <<>>), error |-> error]

NoCall == [op |-> "none"]

NoRun ==
    [pc |-> "idle", entry |-> "none", caller |-> "none", contract |-> NoContract,
     results |-> <<>>, pass_count |-> 0, fail_count |-> 0, validation_passed |-> FALSE,
     checked |-> FALSE,
     source_valid |-> FALSE, dest_valid |-> FALSE, quarantine_valid |-> FALSE,
     writes |-> <<>>, result |-> NoResult, returned |-> "none"]

-----------------------------------------------------------------------------
(* Ledger operations *)

Fresh(day) ==
    /\ clock = day
    /\ logsDirExists = FALSE
    /\ logsDir = <<>>
    /\ ledgerFile = NoFile
    /\ sealedBytes = <<>>
    /\ tampered = {}
    /\ summary = Returned(NewSummary)
    /\ run = NoRun
    /\ call = NoCall
    /\ writers = <<>>

Init == Fresh(1)

(* OpenOptions::new().create(true).append(true) + writeln! *)
AppendLine(dir, filename, entry) ==
    [f \in DOMAIN dir \cup {filename} |->
        IF f = filename
        THEN (IF f \in DOMAIN dir THEN Append(dir[f], entry) ELSE <<entry>>)
        ELSE dir[f]]

(* Mutant: the path of the shard is computed once, on the day the process *)
(* started, and kept.                                                      *)
log_event_PathOfStartDay(entry, today, nonce) ==
    LET log_path == LogFilename(MaxDay - 1)
        dir1     == AppendLine(logsDir, log_path, entry)
    IN  /\ \E sealed \in seal_unsealed_logs(ledgerFile, dir1, today, nonce) :
              /\ ledgerFile' = sealed.lf
              /\ sealedBytes' = SealedBytesAfter(sealed.appended, dir1)
        /\ logsDirExists' = TRUE
        /\ logsDir' = dir1
        /\ clock' = today
        /\ summary' = Returned(NewSummary)
        /\ UNCHANGED tampered

(* log_event: the entry goes to the shard of the day read first; the seal  *)
(* is given the day read after the write (`today`, the same day or a later *)
(* one).                                                                   *)
log_event(entry, today, nonce) ==
    LET log_path == LogFilename(clock)
        dir1     == AppendLine(logsDir, log_path, entry)
    IN  /\ \E sealed \in seal_unsealed_logs(ledgerFile, dir1, today, nonce) :
              /\ ledgerFile' = sealed.lf
              /\ sealedBytes' = SealedBytesAfter(sealed.appended, dir1)
        /\ logsDirExists' = TRUE
        /\ logsDir' = dir1
        /\ clock' = today
        /\ summary' = Returned(NewSummary)
        /\ UNCHANGED tampered

(* A log event of another command of the program. *)
LogEvent ==
    /\ run.pc = "idle"
    /\ LogFilename(clock) \in DOMAIN logsDir => Len(logsDir[LogFilename(clock)]) < MaxLines
    /\ \E e \in OtherEvents, today \in clock..MaxDay, nonce \in Nonces :
          log_event(AuditLogEntry(e, None), today, nonce)
    /\ UNCHANGED <<run, call, writers>>

(* seal_unsealed_logs called on its own (as logging initialisation does). *)
Seal ==
    /\ run.pc = "idle"
    /\ logsDirExists
    /\ \E nonce \in Nonces :
       \E sealed \in seal_unsealed_logs(ledgerFile, logsDir, clock, nonce) :
          /\ ledgerFile' = sealed.lf
          /\ sealedBytes' = SealedBytesAfter(sealed.appended, logsDir)
    /\ summary' = Returned(NewSummary)
    /\ UNCHANGED <<clock, logsDirExists, logsDir, tampered, run, call, writers>>

(* Midnight UTC passes. *)
Tick ==
    /\ clock < MaxDay
    /\ clock' = clock + 1
    /\ UNCHANGED <<logsDirExists, logsDir, ledgerFile, sealedBytes, tampered, summary, run, call, writers>>

(* Someone outside the program rewrites one line of a sealed shard (each   *)
(* shard at most once).                                                    *)
Tamper ==
    /\ run.pc = "idle"
    /\ \E f \in (DOMAIN logsDir \cap DOMAIN sealedBytes) \ tampered :
       \E i \in 1..Len(logsDir[f]) :
          /\ logsDir[f][i] # Forged
          /\ logsDir' = [logsDir EXCEPT ![f] = [logsDir[f] EXCEPT ![i] = Forged]]
          /\ tampered' = tampered \cup {f}
    /\ summary' = Returned(NewSummary)
    /\ UNCHANGED <<clock, logsDirExists, ledgerFile, sealedBytes, run, call, writers>>

VerifyAll ==
    /\ run.pc = "idle"
    /\ summary' = Returned(verify_all(logsDirExists, logsDir, ledgerFile))
    /\ UNCHANGED <<clock, logsDirExists, logsDir, ledgerFile, sealedBytes, tampered, run, call, writers>>

VerifyDate ==
    /\ run.pc = "idle"
    /\ \E date \in DateArgs :
          summary' = Returned(verify_date(date, clock, logsDirExists, logsDir, ledgerFile))
    /\ UNCHANGED <<clock, logsDirExists, logsDir, ledgerFile, sealedBytes, tampered, run, call, writers>>

Next ==
    \/ LogEvent
    \/ Seal
    \/ Tick
    \/ Tamper
    \/ VerifyAll
    \/ VerifyDate

Spec == Init /\ [][Next]_vars

-----------------------------------------------------------------------------
(* The run orchestrator.  One run is a sequence of steps, one per audit    *)
(* event the code logs (with the computation that precedes it), so that    *)
(* midnight may pass between two events of a run.  run.result is what      *)
(* run_contract_validation returned, run.returned what the entry point     *)
(* returned to its caller, run.writes the Connector writes attempted.      *)

Entries ==
    {"engine::contracts::run_contract_validation",   \* pipa: the public run
     "core::orchestration::run_contract_validation"} \* the earlier orchestrator

(* Who called engine::contracts::run_contract_validation: the command line *)
(* or validate_data.  The callee does not depend on its caller, so the     *)
(* caller is drawn when the callee returns.                                *)
Callers == {"cli", "validate_data"}

Location == "data.csv"

SourceConfigs ==
    {None, Some(Source("local", None)),
     Some(Source("local", Some(Location))), Some(Source("s3", Some(Location)))}

MovementConfigs ==
    {None, Some(Destination("not_moved")), Some(Destination("local")),
     Some(Destination("s3"))}

(* core::orchestration never reads destination or quarantine. *)
ContractsFor(entry) ==
    IF entry = "core::orchestration::run_contract_validation"
    THEN {SchemaContracts(s, None, None) : s \in SourceConfigs}
    ELSE {SchemaContracts(s, d, q) :
            s \in SourceConfigs, d \in MovementConfigs, q \in MovementConfigs}

RuleResultLists ==
    UNION {[1..n -> {RuleResult(st) : st \in RuleStatuses}] : n \in 0..MaxRules}

CountResult(results, status) ==
    Len(SelectSeq(results, LAMBDA r : r.result = status))

pass_count(results) == CountResult(results, "pass")

(* Mutant: every result that is not a pass counts as a failure. *)
fail_count_NotPassed(results) == Len(results) - CountResult(results, "pass")

fail_count(results) == CountResult(results, "fail")

validation_passed(failCount) == failCount = 0

TypeOf(config) == IF config = None THEN None ELSE Some(config[1].type)

(* `connected` stands for: a profile is named and test_profile_internal    *)
(* reached it.                                                             *)
test_profile_connectivity(destination_type, connected) ==
    IF destination_type \in {Some("local"), Some("not_moved")}
    THEN TRUE
    ELSE connected

validate_profiles(source, destination, quarantine, connected) ==
    <<test_profile_connectivity(TypeOf(source), connected[1]),
      test_profile_connectivity(TypeOf(destination), connected[2]),
      test_profile_connectivity(TypeOf(quarantine), connected[3])>>

(* Mutant: the destination branch is taken whatever the verdict. *)
MovementBranch_IgnoresOutcome(passed, contract, dest_valid, quarantine_valid) ==
    IF contract.destination # None /\ contract.destination[1].type # "not_moved"
    THEN (IF dest_valid THEN "write_destination" ELSE "skip_destination")
    ELSE "none"

(* Mutant: the write is attempted whatever the connectivity check said. *)
MovementBranch_IgnoresPreflight(passed, contract, dest_valid, quarantine_valid) ==
    IF passed
    THEN IF contract.destination # None /\ contract.destination[1].type # "not_moved"
         THEN "write_destination"
         ELSE "none"
    ELSE IF contract.quarantine # None /\ contract.quarantine[1].type # "not_moved"
         THEN "write_quarantine"
         ELSE "none"

(* Mutant: "not_moved" is treated like any other destination type. *)
MovementBranch_WritesNotMoved(passed, contract, dest_valid, quarantine_valid) ==
    IF passed
    THEN IF contract.destination # None
         THEN (IF dest_valid THEN "write_destination" ELSE "skip_destination")
         ELSE "none"
    ELSE IF contract.quarantine # None
         THEN (IF quarantine_valid THEN "write_quarantine" ELSE "skip_quarantine")
         ELSE "none"

(* The branch the movement logic of run_contract_validation takes. *)
MovementBranch(passed, contract, dest_valid, quarantine_valid) ==
    IF passed
    THEN IF contract.destination # None /\ contract.destination[1].type # "not_moved"
         THEN (IF dest_valid THEN "write_destination" ELSE "skip_destination")
         ELSE "none"
    ELSE IF contract.quarantine # None /\ contract.quarantine[1].type # "not_moved"
         THEN (IF quarantine_valid THEN "write_quarantine" ELSE "skip_quarantine")
         ELSE "none"

(* The branch the movement logic of validate_data takes. *)
WrapperBranch(passed, contract) ==
    LET dest_valid ==
            contract.destination # None /\ contract.destination[1].type # "not_moved"
        quarantine_valid ==
            contract.quarantine # None /\ contract.quarantine[1].type # "not_moved"
    IN  IF passed /\ dest_valid THEN "write_destination"
        ELSE IF ~passed /\ quarantine_valid THEN "write_quarantine"
        ELSE "none"

Write(by, to, ok) == [by |-> by, to |-> to, ok |-> ok]

(* Mutant: the first event of a run is logged as validation_summary. *)
StartEvent_Summary(entry) == "validation_summary"

StartEvent(entry) ==
    IF entry = "core::orchestration::run_contract_validation"
    THEN "file_acquired"
    ELSE "contract_validation_started"

CompletionEvent(entry) ==
    IF entry = "core::orchestration::run_contract_validation"
    THEN "validation_complete"
    ELSE "contract_validation_completed"

(* The run ends with an error (`?` or `return Err`); validate_data passes  *)
(* the error on.                                                           *)
Abort(r, error) ==
    /\ \E caller \in IF r.entry = "core::orchestration::run_contract_validation"
                      THEN {"cli"} ELSE Callers :
          run' = [r EXCEPT !.pc = "done", !.caller = caller,
                           !.result = Err(error), !.returned = "Err"]
    /\ UNCHANGED <<ledgerVars, call, writers>>

(* One log_event of the run (log_action and log_and_print both end in      *)
(* log_event), then on to the next step.                                   *)
Log(entry, nextRun) ==
    /\ \E today \in clock..MaxDay, nonce \in Nonces : log_event(entry, today, nonce)
    /\ run' = nextRun
    /\ UNCHANGED <<call, writers>>

(* Mutant: the start event is logged before the contract is looked up;   *)
(* the run then ends with the lookup error.                                *)
RunStart_LogsFirst ==
    /\ run.pc = "idle"
    /\ \E entry \in Entries :
          Log(AuditLogEntry(StartEvent(entry), None),
              [run EXCEPT !.entry = entry, !.caller = "cli", !.pc = "done",
                          !.result = Err("Contract not found"), !.returned = "Err"])

(* run_contract_validation up to the start event. *)
RunStart ==
    /\ run.pc = "idle"
    /\ \E entry \in Entries, exists \in BOOLEAN, profiles_ok \in BOOLEAN :
       \E contract \in ContractsFor(entry) :
          LET r == [run EXCEPT !.entry = entry, !.contract = contract]
          IN  IF ~exists THEN Abort([run EXCEPT !.entry = entry], "Contract not found")
              ELSE IF ~profiles_ok THEN Abort(r, "load_profiles")
              ELSE IF contract.source = None THEN Abort(r, "Contract missing source")
              ELSE IF contract.source[1].location = None
                   THEN Abort(r, "Source missing location")
              ELSE Log(AuditLogEntry(StartEvent(entry), None), [r EXCEPT !.pc = "fetch"])

(* fetch_data_from_source, then the file_read event. *)
Fetch ==
    /\ run.pc = "fetch"
    /\ \E fetched \in BOOLEAN :
          IF fetched
          THEN Log(AuditLogEntry("file_read", None), [run EXCEPT !.pc = "validation_start"])
          ELSE Abort(run, "fetch_data_from_source")

(* execute_validation, one step per event. *)
ValidationStart ==
    /\ run.pc = "validation_start"
    /\ Log(AuditLogEntry("validation_start", None), [run EXCEPT !.pc = "get_driver"])

DriverFound ==
    /\ run.pc = "get_driver"
    /\ \E found \in BOOLEAN :
          IF found
          THEN Log(AuditLogEntry("driver_found", None), [run EXCEPT !.pc = "load"])
          ELSE Abort(run, "get_driver")

(* Mutant: the parse failure surfaces after a rule has produced a result. *)
DataframeParsed_AfterRules ==
    /\ run.pc = "load"
    /\ Abort([run EXCEPT !.results = <<RuleResult("skipped")>>], "load")

DataframeParsed ==
    /\ run.pc = "load"
    /\ \E parsed \in BOOLEAN :
          IF parsed
          THEN Log(AuditLogEntry("dataframe_parsed", None),
                   [run EXCEPT !.pc = "validate_dataframe"])
          ELSE Abort(run, "load")

(* validate_dataframe and the validation_summary event; back in the       *)
(* orchestrator, the counts and the verdict.                               *)
ValidationSummary ==
    /\ run.pc = "validate_dataframe"
    /\ \/ Abort(run, "validate_dataframe")
       \/ \E results \in RuleResultLists :
             Log(AuditLogEntry("validation_summary", Some(results)),
                 [run EXCEPT !.results = results,
                             !.pass_count = pass_count(results),
                             !.fail_count = fail_count(results),
                             !.validation_passed = validation_passed(fail_count(results)),
                             !.pc = IF run.entry = "core::orchestration::run_contract_validation"
                                    THEN "complete"
                                    ELSE "validate_profiles"])

(* The pre-flight connectivity checks; an unreachable source aborts.  The  *)
(* driver lookup and parse before them repeat, on the same bytes, what     *)
(* execute_validation has just done successfully.                          *)
ValidateProfiles ==
    /\ run.pc = "validate_profiles"
    /\ \E connected \in BOOLEAN \X BOOLEAN \X BOOLEAN :
          LET valid == validate_profiles(run.contract.source, run.contract.destination,
                                         run.contract.quarantine, connected)
              r     == [run EXCEPT !.checked = TRUE,
                                   !.source_valid = valid[1], !.dest_valid = valid[2],
                                   !.quarantine_valid = valid[3]]
          IN  IF ~valid[1]
              THEN Abort(r, "Source profile connectivity failed")
              ELSE run' = [r EXCEPT !.pc = "movement"] /\ UNCHANGED <<ledgerVars, call, writers>>

(* The movement logic of run_contract_validation. *)
Movement ==
    /\ run.pc = "movement"
    /\ LET branch == MovementBranch(run.validation_passed, run.contract,
                                    run.dest_valid, run.quarantine_valid)
           by     == "run_contract_validation"
           next   == [run EXCEPT !.pc = "complete"]
       IN  CASE branch = "none" ->
                  run' = next /\ UNCHANGED <<ledgerVars, call, writers>>
             [] branch \in {"skip_destination", "skip_quarantine"} ->
                  Log(AuditLogEntry("movement_skipped", None), next)
             [] branch = "write_destination" ->
                  \E ok \in BOOLEAN :
                     Log(AuditLogEntry(IF ok THEN "movement_success" ELSE "movement_error",
                                       None),
                         [next EXCEPT !.writes = Append(@, Write(by, "destination", ok))])
             [] branch = "write_quarantine" ->
                  \E ok \in BOOLEAN :
                     Log(AuditLogEntry(IF ok THEN "movement_quarantine" ELSE "movement_error",
                                       None),
                         [next EXCEPT !.writes = Append(@, Write(by, "quarantine", ok))])

(* The completion event and the value run_contract_validation returns. *)
Complete ==
    /\ run.pc = "complete"
    /\ LET outcome == ValidationOutcome(run.validation_passed, run.pass_count,
                                        run.fail_count, run.results)
           core    == run.entry = "core::orchestration::run_contract_validation"
           logged  == IF core THEN Some(run.results) ELSE None
       IN  \E caller \in IF core THEN {"cli"} ELSE Callers :
              Log(AuditLogEntry(CompletionEvent(run.entry), logged),
                  [run EXCEPT !.result = Ok(outcome),
                              !.caller = caller,
                              !.pc = IF caller = "validate_data"
                                     THEN "validate_data" ELSE "done",
                              !.returned = IF caller = "validate_data"
                                           THEN "none" ELSE "Ok"])

(* validate_data after run_contract_validation has returned Ok: profiles   *)
(* are loaded again (a failure is logged as "error" and ends the call),    *)
(* its own copy of the data is parsed, and the data is written with no     *)
(* connectivity check; a failed write is passed on with `?`.               *)
ValidateDataMovement ==
    /\ run.pc = "validate_data"
    /\ LET passed == run.result.outcome.fail_count = 0
           branch == WrapperBranch(passed, run.contract)
           by     == "validate_data"
       IN  \E profiles_ok \in BOOLEAN, loaded \in BOOLEAN :
              IF ~profiles_ok
              THEN Log(AuditLogEntry("error", None),
                       [run EXCEPT !.pc = "done", !.returned = "Ok"])
              ELSE IF ~loaded
              THEN run' = [run EXCEPT !.pc = "done", !.returned = "Err"]
                   /\ UNCHANGED <<ledgerVars, call, writers>>
              ELSE IF branch = "none"
              THEN run' = [run EXCEPT !.pc = "done", !.returned = "Ok"]
                   /\ UNCHANGED <<ledgerVars, call, writers>>
              ELSE \E ok \in BOOLEAN :
                     /\ run' = [run EXCEPT
                                  !.pc = "done",
                                  !.returned = IF ok THEN "Ok" ELSE "Err",
                                  !.writes = Append(@, Write(by,
                                      IF branch = "write_destination" THEN "destination"
                                      ELSE "quarantine", ok))]
                     /\ UNCHANGED <<ledgerVars, call, writers>>

NextRun ==
    \/ Tick
    \/ RunStart
    \/ Fetch
    \/ ValidationStart
    \/ DriverFound
    \/ DataframeParsed
    \/ ValidationSummary
    \/ ValidateProfiles
    \/ Movement
    \/ Complete
    \/ ValidateDataMovement

(* A run on a fresh installation, started on the eve of the last day. *)
InitRun == Fresh(MaxDay - 1)

SpecRun == InitRun /\ [][NextRun]_vars

-----------------------------------------------------------------------------
(* Properties of the ledger *)

LedgerPlaintext == read_ledger_plaintext(ledgerFile)

(* Number of well-formed ledger records whose filename field is f. *)
RecordCount(lf, f) ==
    LET rs == LedgerRecords(read_ledger_plaintext(lf))
    IN  Cardinality({i \in 1..Len(rs) : Len(rs[i]) >= 3 /\ rs[i][2] = f})

(* A step in which log_event wrote a line. *)
LineWritten ==
    \E f \in DOMAIN logsDir' :
        f \notin DOMAIN logsDir \/ Len(logsDir'[f]) > Len(logsDir[f])

FilesOf(s) == {s.files[i] : i \in 1..Len(s.files)}

(* C1: after any sequence of log events and seals by the single writer, no *)
(* shard has more than one ledger record, and the test the seal uses to    *)
(* decide "already sealed" (ledger_contains) answers yes exactly for the   *)
(* shards that have a record: none is resealed, none is taken for sealed.  *)
C1_SealedOncePerFilename ==
    \A f \in DOMAIN logsDir :
        /\ RecordCount(ledgerFile, f) <= 1
        /\ ledger_contains(ledgerFile, f) <=> (RecordCount(ledgerFile, f) = 1)

C1_Witness ==
    /\ Cardinality(RecordedNames(ledgerFile)) >= 2
    /\ \E f \in DOMAIN logsDir : ~ledger_contains(ledgerFile, f)

(* C2: a sealed shard whose bytes differ from the bytes that were hashed   *)
(* is reported Mismatched by verify_all and by verify_date for its date,   *)
(* in every state reached afterwards.                                      *)
C2_TamperDetected ==
    \A d \in Days :
        LET f == LogFilename(d)
        IN  (f \in DOMAIN sealedBytes /\ f \in DOMAIN logsDir
                /\ logsDir[f] # sealedBytes[f])
            => /\ \E fv \in FilesOf(verify_all(logsDirExists, logsDir, ledgerFile)) :
                      fv.filename = f /\ fv.status = "Mismatched"
               /\ \A fv \in FilesOf(verify_all(logsDirExists, logsDir, ledgerFile)) :
                      fv.filename = f => fv.status = "Mismatched"
               /\ LET s == verify_date([kind |-> "some", day |-> d], clock,
                                       logsDirExists, logsDir, ledgerFile)
                  IN  s.mismatched = 1 /\ s.files[1].filename = f
                        /\ s.files[1].status = "Mismatched"

C2_Witness ==
    \E d \in Days :
        /\ LogFilename(d) \in DOMAIN sealedBytes
        /\ logsDir[LogFilename(d)] # sealedBytes[LogFilename(d)]
        /\ clock > d + 1
        /\ LogFilename(d + 1) \in DOMAIN sealedBytes

(* C3: in the state a seal leaves behind, verify_date for the date of a    *)
(* shard the seal just recorded, and verify_all, report it Verified with   *)
(* stored_hash = computed_hash = SHA-256 of the shard's bytes.             *)
RoundTrip(d, dirExists, dir, lf, today) ==
    LET f  == LogFilename(d)
        h  == compute_sha256(dir[f])
        ok == FileVerification(f, "Verified", Some(h), Some(h))
        s  == verify_date([kind |-> "some", day |-> d], today, dirExists, dir, lf)
    IN  /\ s.files = <<ok>>
        /\ s.verified = 1
        /\ ok \in FilesOf(verify_all(dirExists, dir, lf))

C3_SealThenVerify ==
    [][\A d \in Days :
          (LogFilename(d) \in DOMAIN sealedBytes' /\ LogFilename(d) \notin DOMAIN sealedBytes)
          => RoundTrip(d, logsDirExists', logsDir', ledgerFile', clock')]_vars

C3_Witness ==
    /\ summary.verified = 1
    /\ \E d \in Days :
          /\ LogFilename(d) \in DOMAIN sealedBytes
          /\ DOMAIN summary.files =
                {FileVerification(LogFilename(d), "Verified",
                                  Some(compute_sha256(logsDir[LogFilename(d)])),
                                  Some(compute_sha256(logsDir[LogFilename(d)])))}

(* C4: a shard has no ledger record while its date is today (or later),    *)
(* and once a log_event has completed on a later day it has exactly one.   *)
C4_NotSealedToday ==
    \A d \in Days : d >= clock => RecordCount(ledgerFile, LogFilename(d)) = 0

C4_SealedByNextDayEvent ==
    [][LineWritten =>
          \A d \in Days :
              (d < clock' /\ LogFilename(d) \in DOMAIN logsDir')
              => RecordCount(ledgerFile', LogFilename(d)) = 1]_vars

C4_SealedExactlyOnce == []C4_NotSealedToday /\ C4_SealedByNextDayEvent

C4_Witness ==
    /\ clock >= 2
    /\ RecordCount(ledgerFile, LogFilename(clock - 1)) = 1
    /\ LogFilename(clock) \in DOMAIN logsDir
    /\ RecordCount(ledgerFile, LogFilename(clock)) = 0

(* C5: every step leaves the old ledger plaintext as a prefix of the new   *)
(* one: a seal appends records and changes none that was written.          *)
C5_LedgerAppendOnly ==
    [][StartsWith(read_ledger_plaintext(ledgerFile'), read_ledger_plaintext(ledgerFile))]_vars

C5_Witness == Len(LedgerRecords(LedgerPlaintext)) >= 2

-----------------------------------------------------------------------------
(* Properties of the run *)

(* The events of all shards, oldest shard first, each shard in file order. *)
RECURSIVE EventsUpTo(_)
EventsUpTo(d) ==
    IF d = 0 THEN <<>>
    ELSE EventsUpTo(d - 1) \o
         (IF LogFilename(d) \in DOMAIN logsDir
          THEN [i \in 1..Len(logsDir[LogFilename(d)]) |-> logsDir[LogFilename(d)][i].event]
          ELSE <<>>)

EventsLogged == EventsUpTo(MaxDay)

EventCount(e) ==
    LET ev == EventsLogged IN Cardinality({i \in DOMAIN ev : ev[i] = e})

WritesBy(by) == SelectSeq(run.writes, LAMBDA w : w.by = by)

(* The outcome validation decided (the orchestrator's locals). *)
Decided ==
    ValidationOutcome(run.validation_passed, run.pass_count, run.fail_count, run.results)

(* The endpoint the verdict selects for the movement. *)
Selected == IF run.validation_passed THEN run.contract.destination ELSE run.contract.quarantine

SelectedValid == IF run.validation_passed THEN run.dest_valid ELSE run.quarantine_valid

(* C6: the ValidationOutcome a run returns has passed = (fail_count = 0),  *)
(* with fail_count the number of results with status fail and pass_count   *)
(* the number with status pass, whatever the rule results are (none, only  *)
(* skipped ones, any mix).                                                 *)
C6_PassedIffNoFailures ==
    run.result.kind = "Ok" =>
        LET o == run.result.outcome
        IN  /\ o.passed <=> (o.fail_count = 0)
            /\ o.fail_count =
                  Cardinality({i \in DOMAIN o.results : o.results[i].result = "fail"})
            /\ o.pass_count =
                  Cardinality({i \in DOMAIN o.results : o.results[i].result = "pass"})

C6_Witness ==
    /\ run.result.kind = "Ok"
    /\ run.result.outcome.passed
    /\ Len(run.result.outcome.results) = MaxRules
    /\ \A i \in DOMAIN run.result.outcome.results :
          run.result.outcome.results[i].result = "skipped"

(* C7: run_contract_validation attempts at most one movement write; every  *)
(* write of the run goes to the destination only after a pass and to the   *)
(* quarantine only after a failure.                                        *)
C7_RoutedByOutcome ==
    /\ Len(WritesBy("run_contract_validation")) <= 1
    /\ \A i \in DOMAIN run.writes :
          /\ run.writes[i].to = "destination" => run.validation_passed
          /\ run.writes[i].to = "quarantine" => ~run.validation_passed
          /\ run.result.kind = "Ok" =>
                (run.writes[i].to = "destination" <=> run.result.outcome.passed)

C7_Witness ==
    /\ run.pc = "done"
    /\ run.result.kind = "Ok"
    /\ ~run.result.outcome.passed
    /\ run.contract.destination = Some(Destination("s3"))
    /\ run.writes = <<Write("run_contract_validation", "quarantine", TRUE)>>

C9_WriteFailureCaught ==
    run.pc = "done" =>
        LET failed == {i \in DOMAIN run.writes : ~run.writes[i].ok}
        IN  /\ EventCount("movement_error") = Cardinality(failed)
            /\ failed # {} => (run.returned = "Ok" /\ run.result = Ok(Decided))

MovementEvents ==
    {"movement_skipped", "movement_success", "movement_quarantine", "movement_error"}

(* Position of an event in the order of C10; 0 for events it does not name. *)
Rank(e) ==
    CASE e = "contract_validation_started" -> 1
      [] e = "file_acquired" -> 2
      [] e = "file_read" -> 3
      [] e = "validation_summary" -> 4
      [] e \in MovementEvents -> 5
      [] e \in {"contract_validation_completed", "validation_complete"} -> 6
      [] OTHER -> 0

(* C10: in the shards, read oldest first, the events of a run stand in the *)
(* order start, file_acquired, file_read, validation_summary, movement_*,  *)
(* completed: none appears before one that precedes it in this order.      *)
C10_ProgramOrder ==
    LET ranks == [i \in DOMAIN EventsLogged |-> Rank(EventsLogged[i])]
    IN  \A i, j \in DOMAIN ranks :
            (i < j /\ ranks[i] # 0 /\ ranks[j] # 0) => ranks[i] < ranks[j]

C10_Witness ==
    /\ run.pc = "done"
    /\ run.result.kind = "Ok"
    /\ LogFilename(MaxDay - 1) \in DOMAIN logsDir
    /\ LogFilename(MaxDay) \in DOMAIN logsDir
    /\ logsDir[LogFilename(MaxDay)][1].event = "validation_summary"
    /\ EventCount("movement_quarantine") = 1
    /\ EventCount("contract_validation_completed") = 1

(* C11: a run that ends because the contract is absent from storage or has *)
(* no [source] section has written no audit event: the shards hold no      *)
(* event at all (in particular no validation_start).                       *)
C11_AbortBeforeAnyEvent ==
    (run.pc = "done"
        /\ run.result \in {Err("Contract not found"), Err("Contract missing source")})
    => /\ EventsLogged = <<>>
       /\ logsDir = <<>>

C11_Witness ==
    /\ run.pc = "done"
    /\ run.result = Err("Contract missing source")
    /\ run.contract.source = None
    /\ run.contract.destination = Some(Destination("s3"))

InfraErrors ==
    {Err("Contract not found"), Err("load_profiles"), Err("fetch_data_from_source"),
     Err("get_driver"), Err("load")}

(* C12: a run that ends in an infrastructure error (missing contract,      *)
(* failed profile load, failed fetch, failed driver lookup or parse) has   *)
(* produced no RuleResult, logged no validation_summary and attempted no   *)
(* movement write.                                                         *)
C12_InfraErrorBeforeRules ==
    (run.pc = "done" /\ run.result \in InfraErrors)
    => /\ run.results = <<>>
       /\ EventCount("validation_summary") = 0
       /\ run.writes = <<>>

C12_Witness ==
    /\ run.pc = "done"
    /\ run.result = Err("load")
    /\ EventCount("driver_found") = 1

-----------------------------------------------------------------------------
(* Validators.  A DataFrame is a function from column names to series; a   *)
(* series has a dtype and a sequence of cells, None for a null and Some(v) *)
(* for a value (an integer in a numeric column, a text in a string one).   *)
(* sigma is kept as an integer, so that the outlier test is computed in    *)
(* exact integer arithmetic.                                               *)

MaxRows == 2       \* cells of one column
MaxColumns == 2    \* columns of a dataset, and column contracts of a contract

OkOf(value) == [kind |-> "Ok", value |-> value]

ErrOf(error) == [kind |-> "Err", error |-> error]

Series(dtype, values) == [dtype |-> dtype, values |-> values]

ValidationReport(status, details) == [status |-> status, details |-> details]

ContractType(type, min, max, sigma) ==
    [type |-> type, min |-> min, max |-> max, sigma |-> sigma]

ColumnContracts(name, validation) == [name |-> name, validation |-> validation]

(* df.column(name) *)
column(df, column_name) ==
    IF column_name \in DOMAIN df
    THEN OkOf(df[column_name])
    ELSE ErrOf("ColumnNotFound")

(* The values of the non-null cells, in order. *)
NonNull(values) ==
    LET kept == SelectSeq(values, LAMBDA c : c # None)
    IN  [i \in 1..Len(kept) |-> kept[i][1]]

null_count(series) == Len(series.values) - Len(NonNull(series.values))

RECURSIVE SumSeq(_)
SumSeq(xs) == IF xs = <<>> THEN 0 ELSE Head(xs) + SumSeq(Tail(xs))

NotNull_validate(df, column_name) ==
    LET got == column(df, column_name)
    IN  IF got.kind = "Err" THEN got
        ELSE IF null_count(got.value) > 0
        THEN OkOf(ValidationReport("fail",
                    Some("null_count=" \o ToString(null_count(got.value)))))
        ELSE OkOf(ValidationReport("pass", None))

(* Mutant: a column that is not Int64 passes instead of being skipped. *)
Range_validate_PassesOtherTypes(self, df, column_name) ==
    LET got == column(df, column_name)
    IN  IF got.kind = "Err" THEN got ELSE OkOf(ValidationReport("pass", None))

Range_validate(self, df, column_name) ==
    LET got == column(df, column_name)
    IN  IF got.kind = "Err" THEN got
        ELSE IF got.value.dtype = "i64"
        THEN LET values    == NonNull(got.value.values)
                 bad_count == Len(SelectSeq(values,
                                    LAMBDA v : v < self.min \/ v > self.max))
             IN  IF bad_count > 0
                 THEN OkOf(ValidationReport("fail",
                        Some("bad_count=" \o ToString(bad_count) \o ", min="
                             \o ToString(self.min) \o ", max=" \o ToString(self.max))))
                 ELSE OkOf(ValidationReport("pass", None))
        ELSE OkOf(ValidationReport("skipped", Some("column is not an integer type")))

(* str::parse::<f64> on the texts the model uses: a digit parses. *)
ParseFloat(text) ==
    IF \E n \in 0..9 : DigitChar(n) = text
    THEN Some(CHOOSE n \in 0..9 : DigitChar(n) = text)
    ELSE None

(* series.strict_cast(&DataType::Float64): a string column casts when      *)
(* every non-null cell parses; a null stays null.                          *)
strict_cast_f64(series) ==
    IF series.dtype \in {"i32", "i64", "f64"} THEN OkOf(Series("f64", series.values))
    ELSE IF \A i \in DOMAIN series.values :
                series.values[i] # None => ParseFloat(series.values[i][1]) # None
    THEN OkOf(Series("f64",
            [i \in DOMAIN series.values |->
                IF series.values[i] = None THEN None
                ELSE ParseFloat(series.values[i][1])]))
    ELSE ErrOf("cast")

(* mean and std(1), as the pair <<sum, count>> and as the sum of squared   *)
(* deviations scaled by count^2; None as the library returns None.         *)
mean(values) ==
    IF values = <<>> THEN None ELSE Some(<<SumSeq(values), Len(values)>>)

ScaledDeviation(values, i) == Len(values) * values[i] - SumSeq(values)

std(values) ==
    IF Len(values) <= 1 THEN None
    ELSE Some(SumSeq([i \in DOMAIN values |->
                        ScaledDeviation(values, i) * ScaledDeviation(values, i)]))

OutlierSigma_validate(self, df, column_name) ==
    LET got == column(df, column_name)
    IN  IF got.kind = "Err" THEN got
        ELSE LET cast == strict_cast_f64(got.value)
             IN  IF cast.kind = "Err"
                 THEN OkOf(ValidationReport("skipped",
                            Some("column could not be cast to a numeric type")))
                 ELSE
                 LET values == NonNull(cast.value.values)
                 IN  IF mean(values) # None /\ std(values) # None
                     THEN IF std(values)[1] = 0
                          THEN OkOf(ValidationReport("pass",
                                 Some("standard deviation is zero; no outliers possible")))
                          ELSE LET outlier_count ==
                                     Cardinality({i \in DOMAIN values :
                                        (Len(values) - 1) * ScaledDeviation(values, i)
                                              * ScaledDeviation(values, i)
                                        > self.sigma * self.sigma * std(values)[1]})
                               IN  IF outlier_count > 0
                                   THEN OkOf(ValidationReport("fail",
                                          Some("outliers=" \o ToString(outlier_count)
                                               \o ", sigma=" \o ToString(self.sigma))))
                                   ELSE OkOf(ValidationReport("pass", None))
                     ELSE OkOf(ValidationReport("skipped",
                            Some("mean or standard deviation could not be calculated")))

(* The column-level rule types validate_dataframe knows, and the dispatch. *)
(* Mutant: nulls are left out of the count of distinct values. *)
n_unique_NonNull(series) ==
    Cardinality({series.values[i] : i \in DOMAIN series.values} \ {None})

(* Series::n_unique: the distinct cells, null being one of them. *)
n_unique(series) == Cardinality({series.values[i] : i \in DOMAIN series.values})

Unique_validate(df, column_name) ==
    LET got == column(df, column_name)
    IN  IF got.kind = "Err" THEN got
        ELSE LET unique_count == n_unique(got.value)
                 total_count  == Len(got.value.values)
             IN  IF unique_count = total_count
                 THEN OkOf(ValidationReport("pass", None))
                 ELSE OkOf(ValidationReport("fail",
                        Some("found " \o ToString(unique_count) \o " unique values in "
                             \o ToString(total_count) \o " total rows")))

(* DataFrame::height *)
height(df) ==
    IF DOMAIN df = {} THEN 0 ELSE Len(df[CHOOSE c \in DOMAIN df : TRUE].values)

(* CompoundUniqueValidator::validate: unique_stable keeps the first row of *)
(* every distinct tuple over self.columns and fails on a column the frame  *)
(* lacks.                                                                  *)
CompoundUnique_validate(self, df) ==
    LET total_rows == height(df)
    IN  IF \E k \in DOMAIN self.columns : self.columns[k] \notin DOMAIN df
        THEN ErrOf("ColumnNotFound")
        ELSE LET distinct_rows ==
                     Cardinality({[k \in DOMAIN self.columns |-> df[self.columns[k]].values[i]]
                                    : i \in 1..total_rows})
             IN  IF distinct_rows = total_rows
                 THEN OkOf(ValidationReport("pass",
                        Some("columns=" \o ToString(self.columns) \o ", rows="
                             \o ToString(total_rows))))
                 ELSE OkOf(ValidationReport("fail",
                        Some("columns=" \o ToString(self.columns) \o ", rows="
                             \o ToString(total_rows) \o ", distinct="
                             \o ToString(distinct_rows))))

SupportedAtColumnLevel == {"NotNull", "Unique", "Range", "OutlierSigma"}

validate(rule, df, column_name) ==
    CASE rule.type = "NotNull" -> NotNull_validate(df, column_name)
      [] rule.type = "Unique" -> Unique_validate(df, column_name)
      [] rule.type = "Range" -> Range_validate(rule, df, column_name)
      [] rule.type = "OutlierSigma" -> OutlierSigma_validate(rule, df, column_name)

RuleResultOf(column_name, rule, report) ==
    [column |-> column_name, rule |-> rule.type, result |-> report.status,
     details |-> report.details]

RECURSIVE ValidateRules(_, _, _, _)
ValidateRules(df, column_name, rules, results) ==
    IF rules = <<>> THEN OkOf(results)
    ELSE IF Head(rules).type \notin SupportedAtColumnLevel
    THEN ValidateRules(df, column_name, Tail(rules), results)        \* `_ => continue`
    ELSE LET report == validate(Head(rules), df, column_name)
         IN  IF report.kind = "Err" THEN report                      \* `?`
             ELSE ValidateRules(df, column_name, Tail(rules),
                    Append(results, RuleResultOf(column_name, Head(rules), report.value)))

RECURSIVE ValidateColumns(_, _, _)
ValidateColumns(df, columns, results) ==
    IF columns = <<>> THEN OkOf(results)
    ELSE LET r == ValidateRules(df, Head(columns).name, Head(columns).validation, results)
         IN  IF r.kind = "Err" THEN r
             ELSE ValidateColumns(df, Tail(columns), r.value)

(* RowCount { max: Option<usize> } without a max. *)
NoMax == -1

RowCount_validate(self, df) ==
    LET rows      == height(df)
        max_check == self.max # NoMax /\ rows > self.max
    IN  IF rows < self.min \/ max_check
        THEN OkOf(ValidationReport("fail",
               Some("rows=" \o ToString(rows) \o ", min=" \o ToString(self.min)
                    \o ", max=" \o ToString(self.max))))
        ELSE OkOf(ValidationReport("pass", None))

(* FileCompletenessValidator with min_ratio = self.min (0 or 1): the share *)
(* of rows without a null in any column.                                   *)
FileCompleteness_validate(self, df) ==
    LET total_rows    == height(df)
        complete_rows == Cardinality({i \in 1..total_rows :
                                        \A c \in DOMAIN df : df[c].values[i] # None})
    IN  IF total_rows = 0
        THEN OkOf(ValidationReport("pass", Some("file is empty")))
        ELSE IF complete_rows >= self.min * total_rows
        THEN OkOf(ValidationReport("pass", None))
        ELSE OkOf(ValidationReport("fail", Some("ratio, min_ratio")))

SupportedAtFileLevel == {"RowCount", "Completeness"}

(* validator.name() *)
NameAtFileLevel(rule) ==
    IF rule.type = "Completeness" THEN "FileCompleteness" ELSE rule.type

(* The file-level loop. *)
RECURSIVE ValidateFileRules(_, _, _)
ValidateFileRules(df, rules, results) ==
    IF rules = <<>> THEN OkOf(results)
    ELSE IF Head(rules).type \notin SupportedAtFileLevel
    THEN ValidateFileRules(df, Tail(rules), results)                  \* `_ => continue`
    ELSE LET report == IF Head(rules).type = "RowCount"
                       THEN RowCount_validate(Head(rules), df)
                       ELSE FileCompleteness_validate(Head(rules), df)
         IN  IF report.kind = "Err" THEN report
             ELSE ValidateFileRules(df, Tail(rules),
                    Append(results, [column |-> "file", rule |-> NameAtFileLevel(Head(rules)),
                                     result |-> report.value.status,
                                     details |-> report.value.details]))

(* The compound-level loop. *)
RECURSIVE ValidateCompounds(_, _, _)
ValidateCompounds(df, compounds, results) ==
    IF compounds = <<>> THEN OkOf(results)
    ELSE LET report == CompoundUnique_validate(Head(compounds), df)
         IN  IF report.kind = "Err" THEN report
             ELSE ValidateCompounds(df, Tail(compounds),
                    Append(results, [column |-> "compound", rule |-> "CompoundUnique",
                                     result |-> report.value.status,
                                     details |-> report.value.details]))

validate_dataframe(df, contracts) ==
    LET file_level ==
            IF contracts.file = None THEN OkOf(<<>>)
            ELSE ValidateFileRules(df, contracts.file[1].validation, <<>>)
        column_level ==
            IF file_level.kind = "Err" THEN file_level
            ELSE ValidateColumns(df, contracts.columns, file_level.value)
    IN  IF column_level.kind = "Err" THEN column_level
        ELSE IF contracts.compound_unique = None THEN column_level
        ELSE ValidateCompounds(df, contracts.compound_unique[1], column_level.value)

RuleContracts(file, columns, compound_unique) ==
    [file |-> file, columns |-> columns, compound_unique |-> compound_unique]

(* -- inputs -- *)

ColumnName(i) == "c" \o ToString(i)

ColumnNames == {ColumnName(i) : i \in 1..MaxColumns}

IntCells == {None, Some(0), Some(3), Some(7)}

StrCells == {None, Some("3"), Some("x")}

AllSeries ==
    UNION {{Series("i64", v) : v \in [1..n -> IntCells]}
             \cup {Series("i32", v) : v \in [1..n -> IntCells]}
             \cup {Series("f64", v) : v \in [1..n -> IntCells]}
             \cup {Series("str", v) : v \in [1..n -> StrCells]} : n \in 0..MaxRows}

ColumnRules ==
    {ContractType("NotNull", 0, 0, 0), ContractType("Unique", 0, 0, 0),
     ContractType("Range", 1, 5, 0),
     ContractType("OutlierSigma", 0, 0, 0), ContractType("OutlierSigma", 0, 0, 1),
     ContractType("RowCount", 1, 5, 0)}

SampleSeries ==
    {Series("i64", <<Some(3)>>), Series("i64", <<None>>), Series("str", <<Some("x")>>)}

SampleFrames == UNION {[D -> SampleSeries] : D \in SUBSET ColumnNames}

SampleColumns ==
    UNION {[1..n -> {ColumnContracts(c, <<r>>) : c \in ColumnNames, r \in ColumnRules}]
             : n \in 1..MaxColumns}

(* -- actions: one validator on one column; validate_dataframe -- *)

ApplyValidator ==
    /\ call.op = "none"
    /\ \E rule \in {r \in ColumnRules : r.type \in SupportedAtColumnLevel},
          df \in {<<>>} \cup {[c \in {ColumnName(1)} |-> sr] : sr \in AllSeries} :
          call' = [op |-> "validate", rule |-> rule, df |-> df,
                   column_name |-> ColumnName(1),
                   output |-> validate(rule, df, ColumnName(1))]
    /\ UNCHANGED <<ledgerVars, run, writers>>

(* [file] sections: file-level rules, a file-level rule the engine does    *)
(* not dispatch (Exists), a column-level rule. *)
FileSections ==
    {None}
      \cup {Some([validation |-> v]) :
              v \in {<<ContractType("RowCount", 1, NoMax, 0)>>,
                     <<ContractType("RowCount", 0, 0, 0)>>,
                     <<ContractType("Completeness", 1, 0, 0)>>,
                     <<ContractType("Exists", 0, 0, 0)>>,
                     <<ContractType("NotNull", 0, 0, 0)>>,
                     <<ContractType("Exists", 0, 0, 0), ContractType("RowCount", 1, NoMax, 0)>>}}

LevelColumns ==
    {<<>>}
      \cup {<<ColumnContracts(ColumnName(1), v)>> :
              v \in {<<ContractType("NotNull", 0, 0, 0)>>,
                     <<ContractType("RowCount", 1, NoMax, 0), ContractType("Unique", 0, 0, 0)>>,
                     <<ContractType("Exists", 0, 0, 0)>>}}

CompoundSections ==
    {None, Some(<<[columns |-> <<ColumnName(1)>>]>>),
     Some(<<[columns |-> <<ColumnName(1), ColumnName(2)>>]>>)}

SampleContracts ==
    {RuleContracts(None, columns, None) : columns \in SampleColumns}
      \cup {RuleContracts(f, columns, cu) :
              f \in FileSections, columns \in LevelColumns, cu \in CompoundSections}

ValidateDataframe ==
    /\ call.op = "none"
    /\ \E df \in SampleFrames, contracts \in SampleContracts :
          call' = [op |-> "validate_dataframe", df |-> df, contracts |-> contracts,
                   output |-> validate_dataframe(df, contracts)]
    /\ UNCHANGED <<ledgerVars, run, writers>>

(* Frames of two integer columns of the same height. *)
CompoundFrames ==
    UNION {[ColumnNames -> {Series("i64", v) : v \in [1..n -> IntCells]}] : n \in 0..MaxRows}

ApplyCompound ==
    /\ call.op = "none"
    /\ \E df \in CompoundFrames,
          columns \in {<<ColumnName(1)>>, <<ColumnName(1), ColumnName(2)>>} :
          call' = [op |-> "compound_unique", df |-> df, columns |-> columns,
                   output |-> CompoundUnique_validate([columns |-> columns], df)]
    /\ UNCHANGED <<ledgerVars, run, writers>>

NextRules ==
    \/ ApplyValidator
    \/ ValidateDataframe
    \/ ApplyCompound

SpecRules == Init /\ [][NextRules]_vars

(* -- properties of the validators -- *)

(* The rules of a contract that validate_dataframe dispatches, in order. *)
RECURSIVE SupportedRules(_)
SupportedRules(columns) ==
    IF columns = <<>> THEN <<>>
    ELSE LET c    == Head(columns)
             kept == SelectSeq(c.validation, LAMBDA r : r.type \in SupportedAtColumnLevel)
         IN  [i \in 1..Len(kept) |-> [name |-> c.name, rule |-> kept[i]]]
             \o SupportedRules(Tail(columns))

(* C14: validate_dataframe never aborts on a rule that cannot be evaluated  *)
(* on the dataset: it returns one RuleResult for every rule of the         *)
(* contract, in order, and the result of a rule whose column the dataset   *)
(* lacks is "skipped" with a reason.                                       *)
C14_UnevaluableRuleSkipped ==
    (/\ call.op = "validate_dataframe"
     /\ call.contracts.file = None
     /\ call.contracts.compound_unique = None) =>
        LET expected == SupportedRules(call.contracts.columns)
        IN  /\ call.output.kind = "Ok"
            /\ Len(call.output.value) = Len(expected)
            /\ \A i \in DOMAIN expected :
                  /\ call.output.value[i].column = expected[i].name
                  /\ call.output.value[i].rule = expected[i].rule.type
                  /\ expected[i].name \notin DOMAIN call.df =>
                        /\ call.output.value[i].result = "skipped"
                        /\ call.output.value[i].details # None

(* The data shape a rule needs in order to be evaluated. *)
RequiredShape(rule, series) ==
    CASE rule.type \in {"NotNull", "Unique"} -> TRUE
      [] rule.type = "Range" -> series.dtype = "i64"
      [] rule.type = "OutlierSigma" ->
            /\ \/ series.dtype \in {"i32", "i64", "f64"}
               \/ \A i \in DOMAIN series.values :
                     series.values[i] # None =>
                        series.values[i][1] \in {DigitChar(n) : n \in 0..9}
            /\ Cardinality({i \in DOMAIN series.values : series.values[i] # None}) >= 2

(* The level each rule variant belongs to (contracts/types.rs,            *)
(* contracts/file.rs); Completeness belongs to both.                       *)
FileLevelRules == {"RowCount", "Exists", "Completeness"}

(* The rules of a [file] section that apply to the file level, in order. *)
ApplicableFileRules(file) ==
    IF file = None THEN <<>>
    ELSE LET kept == SelectSeq(file[1].validation, LAMBDA r : r.type \in FileLevelRules)
         IN  [i \in 1..Len(kept) |-> [name |-> "file", rule |-> kept[i]]]

(* C23: on a dataset that holds every column the contract names,           *)
(* validate_dataframe returns exactly one RuleResult per applicable rule:  *)
(* the file-level rules of [file], then the column rules in contract       *)
(* order, then one per compound rule; a variant that does not belong to    *)
(* the level it appears in adds no RuleResult and no error.                *)
C23_OneResultPerApplicableRule ==
    (/\ call.op = "validate_dataframe"
     /\ \A i \in DOMAIN call.contracts.columns :
           call.contracts.columns[i].name \in DOMAIN call.df
     /\ call.contracts.compound_unique # None =>
           \A i \in DOMAIN call.contracts.compound_unique[1] :
              \A k \in DOMAIN call.contracts.compound_unique[1][i].columns :
                 call.contracts.compound_unique[1][i].columns[k] \in DOMAIN call.df)
    => LET expected  == ApplicableFileRules(call.contracts.file)
                          \o SupportedRules(call.contracts.columns)
           compounds == IF call.contracts.compound_unique = None THEN 0
                        ELSE Len(call.contracts.compound_unique[1])
       IN  /\ call.output.kind = "Ok"
           /\ Len(call.output.value) = Len(expected) + compounds
           /\ \A i \in DOMAIN expected :
                 /\ call.output.value[i].column = expected[i].name
                 /\ call.output.value[i].rule \in
                       {expected[i].rule.type, NameAtFileLevel(expected[i].rule)}
           /\ \A i \in (Len(expected) + 1)..(Len(expected) + compounds) :
                 /\ call.output.value[i].column = "compound"
                 /\ call.output.value[i].rule = "CompoundUnique"

(* C22: Unique fails exactly when two rows of the column hold the same     *)
(* value (two nulls being the same value), CompoundUnique exactly when two *)
(* rows hold the same tuple over the named columns; otherwise they pass,   *)
(* an empty dataset included.                                              *)
C22_UniqueFailsOnDuplicates ==
    /\ (call.op = "validate" /\ call.rule.type = "Unique"
            /\ call.column_name \in DOMAIN call.df)
       => LET values == call.df[call.column_name].values
          IN  /\ call.output.kind = "Ok"
              /\ call.output.value.status =
                    IF \E i, j \in DOMAIN values : i # j /\ values[i] = values[j]
                    THEN "fail" ELSE "pass"
    /\ call.op = "compound_unique"
       => /\ call.output.kind = "Ok"
          /\ call.output.value.status =
                IF \E i, j \in 1..height(call.df) :
                      /\ i # j
                      /\ \A k \in DOMAIN call.columns :
                            call.df[call.columns[k]].values[i]
                               = call.df[call.columns[k]].values[j]
                THEN "fail" ELSE "pass"

(* A column of two nulls fails Unique. *)
C22_Witness ==
    /\ call.op = "validate"
    /\ call.rule.type = "Unique"
    /\ call.column_name \in DOMAIN call.df
    /\ call.df[call.column_name] = Series("i64", <<None, None>>)
    /\ call.output.value.status = "fail"

(* The values of a column the Range rule counts as bad. *)
OutOfRange(rule, series) ==
    {i \in DOMAIN series.values :
        /\ series.values[i] # None
        /\ series.values[i][1] < rule.min \/ series.values[i][1] > rule.max}

(* C21: on an integer column Range fails exactly when a non-null value is  *)
(* below min or above max, with bad_count the number of such values, and   *)
(* passes otherwise (an empty column included); on a column that is not of *)
(* an integer type it is skipped.                                          *)
C21_RangeOnIntegerColumn ==
    (/\ call.op = "validate"
     /\ call.rule.type = "Range"
     /\ call.column_name \in DOMAIN call.df)
    => LET series == call.df[call.column_name]
           report == call.output.value
       IN  /\ call.output.kind = "Ok"
           /\ IF series.dtype \in {"i32", "i64"}
              THEN LET bad == Cardinality(OutOfRange(call.rule, series))
                   IN  IF bad > 0
                       THEN /\ report.status = "fail"
                            /\ report.details =
                                  Some("bad_count=" \o ToString(bad) \o ", min="
                                       \o ToString(call.rule.min) \o ", max="
                                       \o ToString(call.rule.max))
                       ELSE report.status = "pass"
              ELSE report.status = "skipped"

-----------------------------------------------------------------------------
(* The logs-verify command: pipa's verify_all and verify_logs *)

(* verify_all of pipa, the loop over the ledger lines. *)
RECURSIVE VerifyLedgerLines(_, _, _, _)
VerifyLedgerLines(ls, s, dir, lf) ==
    IF ls = <<>> THEN s
    ELSE LET line  == Head(ls)
             parts == SplitWhitespace(line)
         IN  IF Len(parts) < 3
             THEN VerifyLedgerLines(Tail(ls),
                      Push(s, FileVerification(line, "Malformed", None, None)), dir, lf)
             ELSE LET filename    == parts[2]
                      stored_hash == parts[3]
                  IN  IF filename \notin DirEntries(dir, lf)
                      THEN VerifyLedgerLines(Tail(ls),
                               Push(s, FileVerification(filename, "Missing",
                                                        Some(stored_hash), None)), dir, lf)
                      ELSE LET computed_hash == compute_sha256(FileBytes(filename, dir, lf))
                           IN  VerifyLedgerLines(Tail(ls),
                                   Push(s, FileVerification(filename,
                                               IF stored_hash = computed_hash
                                               THEN "Verified" ELSE "Mismatched",
                                               Some(stored_hash), Some(computed_hash))),
                                   dir, lf)

(* Mutant: the command lists the directory, as verify_all of pipa-core does. *)
pipa_verify_all_ListsDirectory(dirExists, dir, lf) == verify_all(dirExists, dir, lf)

(* verify_all of pipa. *)
pipa_verify_all(dirExists, dir, lf) ==
    IF ~dirExists THEN NewSummary
    ELSE IF read_ledger_plaintext(lf) = <<>> THEN NewSummary
    ELSE VerifyLedgerLines(Lines(read_ledger_plaintext(lf)), NewSummary, dir, lf)

(* LogVerification: the summary with `valid`. *)
LogVerification(s) ==
    [valid |-> s.mismatched = 0 /\ s.missing = 0 /\ s.malformed = 0 /\ s.unsealed = 0,
     summary |-> Returned(s)]

Disk == <<logsDirExists, logsDir, ledgerFile>>

(* verify_logs(date): verify, then log_action("logs_verified"), whose      *)
(* log_event writes to today's shard and runs the seal.  call keeps what   *)
(* the command returned, the disk it left, and (previous) what the caller  *)
(* kept of the command before it.                                          *)
verify_logs(date, today, nonce, previous) ==
    LET s == IF date.kind = "none"
             THEN pipa_verify_all(logsDirExists, logsDir, ledgerFile)
             ELSE verify_date(date, clock, logsDirExists, logsDir, ledgerFile)
    IN  /\ log_event(AuditLogEntry("logs_verified", None), today, nonce)
        /\ call' = [op |-> "verify_logs", date |-> date,
                    output |-> LogVerification(s),
                    day |-> clock,
                    sealed |-> read_ledger_plaintext(ledgerFile')
                                  # read_ledger_plaintext(ledgerFile),
                    disk |-> <<logsDirExists', logsDir', ledgerFile'>>,
                    previous |-> previous]

(* The command for any date argument; the caller keeps the result of the   *)
(* command before it when the disk has not changed in between.             *)
VerifyLogs ==
    /\ run.pc = "idle"
    /\ LogFilename(clock) \in DOMAIN logsDir => Len(logsDir[LogFilename(clock)]) <= MaxLines
    /\ \E date \in DateArgs, today \in clock..MaxDay, nonce \in Nonces :
          verify_logs(date, today, nonce,
                      IF call.op = "verify_logs" /\ call.disk = Disk
                      THEN Some([date |-> call.date, output |-> call.output,
                                 day |-> call.day, sealed |-> call.sealed])
                      ELSE None)
    /\ UNCHANGED <<run, writers>>

(* The command over all dates (--all), nothing kept of earlier commands. *)
VerifyLogsAll ==
    /\ run.pc = "idle"
    /\ LogFilename(clock) \in DOMAIN logsDir => Len(logsDir[LogFilename(clock)]) <= MaxLines
    /\ \E today \in clock..MaxDay, nonce \in Nonces :
          verify_logs([kind |-> "none", day |-> 0], today, nonce, None)
    /\ UNCHANGED <<run, writers>>

NextVerify ==
    \/ LogEvent
    \/ Seal
    \/ Tick
    \/ VerifyLogs

SpecVerify == Init /\ [][NextVerify]_vars

NextVerifyAll ==
    \/ LogEvent
    \/ Tick
    \/ VerifyLogsAll

SpecVerifyAll == Init /\ [][NextVerifyAll]_vars

(* The command is a repeat: the command before it verified the same scope  *)
(* and nothing has changed on disk since it returned.                      *)
Repeated ==
    /\ call.op = "verify_logs"
    /\ call.previous # None
    /\ call.previous[1].date = call.date

-----------------------------------------------------------------------------
(* Verification of a disk in any condition: shards present or removed,     *)
(* rewritten or not, and a ledger of any lines.                            *)

MaxRecords == 2                 \* lines of the ledger

DiskDays == {1, 2}

Shard == <<AuditLogEntry("health_check", None)>>

(* logs/: any of the shards, each as written or rewritten. *)
DiskDirs == UNION {[D -> {Shard, <<Forged>>}] : D \in SUBSET {LogFilename(d) : d \in DiskDays}}

(* One ledger line: the record of a shard as sealed, a line of one field,  *)
(* a line of two fields.                                                   *)
DiskLines ==
    {LedgerLine(d + 1, LogFilename(d), compute_sha256(Shard)) : d \in DiskDays}
        \cup {LogFilename(1) \o <<"\n">>,
              Rfc3339(2) \o <<" ">> \o LogFilename(1) \o <<"\n">>}

RECURSIVE Concat(_)
Concat(ls) == IF ls = <<>> THEN <<>> ELSE Head(ls) \o Concat(Tail(ls))

DiskLedgers ==
    {NoFile} \cup {write_ledger_plaintext(Concat(ls), 0) :
                      ls \in UNION {[1..n -> DiskLines] : n \in 1..MaxRecords}}

(* The ledger is a file of logs/: without the directory there is none. *)
Disks ==
    {[dirExists |-> FALSE, dir |-> <<>>, lf |-> NoFile]}
        \cup {[dirExists |-> TRUE, dir |-> dir, lf |-> lf] : dir \in DiskDirs, lf \in DiskLedgers}

VerifyDateOnDisk ==
    /\ call.op = "none"
    /\ \E disk \in Disks, date \in DateArgs, today \in Days :
          call' = [op |-> "verify_date", date |-> date, today |-> today, disk |-> disk,
                   output |-> verify_date(date, today, disk.dirExists, disk.dir, disk.lf)]
    /\ UNCHANGED <<ledgerVars, run, writers>>

VerifyAllOnDisk ==
    /\ call.op = "none"
    /\ \E disk \in Disks :
          call' = [op |-> "verify_all", disk |-> disk,
                   output |-> verify_all(disk.dirExists, disk.dir, disk.lf)]
    /\ UNCHANGED <<ledgerVars, run, writers>>

PipaVerifyAllOnDisk ==
    /\ call.op = "none"
    /\ \E disk \in Disks :
          call' = [op |-> "pipa::verify_all", disk |-> disk,
                   output |-> pipa_verify_all(disk.dirExists, disk.dir, disk.lf)]
    /\ UNCHANGED <<ledgerVars, run, writers>>

NextDisk ==
    \/ VerifyDateOnDisk
    \/ VerifyAllOnDisk
    \/ PipaVerifyAllOnDisk

SpecDisk == Init /\ [][NextDisk]_vars

(* The well-formed records of the ledger of a disk, in order. *)
WellFormed(disk) ==
    SelectSeq(LedgerRecords(read_ledger_plaintext(disk.lf)), LAMBDA r : Len(r) >= 3)

Present(disk, filename) == disk.dirExists /\ filename \in DirEntries(disk.dir, disk.lf)

(* The status the classification gives a file against a stored hash. *)
Classified(disk, filename, stored_hash) ==
    IF ~Present(disk, filename) THEN "Missing"
    ELSE IF stored_hash = compute_sha256(FileBytes(filename, disk.dir, disk.lf))
    THEN "Verified" ELSE "Mismatched"

(* C17: verify_date for a date reports that date's shard, for any disk:    *)
(* Missing when the file is absent, Unsealed when it is present and no     *)
(* ledger record names it, Verified or Mismatched by the stored hash when  *)
(* it is present and recorded.                                             *)
C17_VerifyDateClassifies ==
    (call.op = "verify_date" /\ call.date.kind # "bad") =>
        LET target   == IF call.date.kind = "some" THEN call.date.day ELSE call.today - 1
            filename == LogFilename(target)
            recs     == SelectSeq(WellFormed(call.disk), LAMBDA r : r[2] = filename)
            files    == call.output.files
        IN  /\ Len(files) = 1
            /\ files[1].filename = filename
            /\ files[1].status =
                  IF ~Present(call.disk, filename) THEN "Missing"
                  ELSE IF recs = <<>> THEN "Unsealed"
                  ELSE Classified(call.disk, filename, recs[1][3])

(* C18: verify_all, in pipa-core and in pipa, reports one Malformed entry  *)
(* for each ledger line of fewer than three fields, and for each           *)
(* well-formed record exactly one entry under its filename, which is       *)
(* Missing, Verified or Mismatched as the file is absent, matches the      *)
(* stored hash, or does not (ledgers that record no filename twice).       *)
C18_VerifyAllParsesEveryLine ==
    (/\ call.op \in {"verify_all", "pipa::verify_all"}
     /\ \A i, j \in DOMAIN WellFormed(call.disk) :
           WellFormed(call.disk)[i][2] = WellFormed(call.disk)[j][2] => i = j)
    => LET ls    == Lines(read_ledger_plaintext(call.disk.lf))
           recs  == WellFormed(call.disk)
           files == call.output.files
       IN  /\ \A k \in DOMAIN ls :
                 Len(SplitWhitespace(ls[k])) < 3 =>
                    Cardinality({n \in DOMAIN files : files[n].status = "Malformed"
                                                          /\ files[n].filename = ls[k]})
                      = Cardinality({m \in DOMAIN ls : ls[m] = ls[k]})
           /\ \A i \in DOMAIN recs :
                 /\ Cardinality({n \in DOMAIN files :
                                   /\ files[n].status \notin {"Malformed", "Unsealed"}
                                   /\ files[n].filename = recs[i][2]}) = 1
                 /\ \E k \in DOMAIN files :
                       /\ files[k].filename = recs[i][2]
                       /\ files[k].status = Classified(call.disk, recs[i][2], recs[i][3])
                       /\ files[k].stored_hash = Some(recs[i][3])

C18_Witness ==
    /\ call.op = "verify_all"
    /\ call.output.malformed = 1
    /\ call.output.missing = 1
    /\ Len(WellFormed(call.disk)) = 1
    /\ call.disk.dirExists

-----------------------------------------------------------------------------
(* Two processes sealing at once.  Each runs seal_unsealed_logs; the file  *)
(* system calls of append_to_ledger are separate steps: fs::read inside    *)
(* read_ledger_plaintext, fs::write inside write_ledger_plaintext.         *)
(* writers.proc[w] is process w: its position, the directory entries still *)
(* to visit, and the plaintext it read.  writers.appends counts the        *)
(* appends completed, writers.overlapped records that one process read the *)
(* ledger while another was between its read and its write.                *)

Writers == {1, 2}

IdleWriter == [pc |-> "idle", todo |-> <<>>, ledger |-> <<>>]

InitWriters ==
    /\ clock = MaxDay
    /\ logsDirExists = TRUE
    /\ logsDir = [f \in {LogFilename(d) : d \in 1..(MaxDay - 1)} |-> Shard]
    /\ ledgerFile = NoFile
    /\ sealedBytes = <<>>
    /\ tampered = {}
    /\ summary = Returned(NewSummary)
    /\ run = NoRun
    /\ call = NoCall
    /\ writers = [proc |-> [w \in Writers |-> IdleWriter], appends |-> 0,
                  overlapped |-> FALSE, started |-> {}]

(* fs::read_dir(logs_dir) *)
WriterStart(w) ==
    /\ writers.proc[w].pc = "idle"
    /\ \E order \in Orders(SealCandidates(logsDir, ledgerFile, clock)) :
          writers' = [writers EXCEPT !.proc[w] = [pc |-> "check", todo |-> order,
                                                  ledger |-> <<>>],
                                     !.started = @ \cup {w}]
    /\ UNCHANGED <<ledgerVars, run, call>>

(* if ledger_contains(fname) { continue; }; at the end of the listing the  *)
(* call returns.                                                           *)
WriterCheck(w) ==
    /\ writers.proc[w].pc = "check"
    /\ LET todo == writers.proc[w].todo
       IN  writers' = [writers EXCEPT !.proc[w] =
               IF todo = <<>> THEN [@ EXCEPT !.pc = "returned"]
               ELSE IF ledger_contains(ledgerFile, Head(todo))
               THEN [@ EXCEPT !.todo = Tail(todo)]
               ELSE [@ EXCEPT !.pc = "read"]]
    /\ UNCHANGED <<ledgerVars, run, call>>

(* append_to_ledger: let mut ledger = read_ledger_plaintext(); *)
WriterRead(w) ==
    /\ writers.proc[w].pc = "read"
    /\ writers' = [writers EXCEPT !.proc[w] = [@ EXCEPT !.pc = "write",
                                     !.ledger = read_ledger_plaintext(ledgerFile)],
                                  !.overlapped = @ \/ \E u \in Writers \ {w} :
                                                        writers.proc[u].pc = "write"]
    /\ UNCHANGED <<ledgerVars, run, call>>

(* append_to_ledger: ledger.extend_from_slice(line); write_ledger_plaintext *)
WriterWrite(w) ==
    /\ writers.proc[w].pc = "write"
    /\ LET fname == Head(writers.proc[w].todo)
           line  == LedgerLine(clock, fname, compute_sha256(logsDir[fname]))
       IN  /\ \E nonce \in Nonces :
                 ledgerFile' = write_ledger_plaintext(writers.proc[w].ledger \o line, nonce)
           /\ sealedBytes' = SealedBytesAfter({fname}, logsDir)
    /\ writers' = [writers EXCEPT !.proc[w] = [@ EXCEPT !.pc = "check", !.todo = Tail(@)],
                                  !.appends = @ + 1]
    /\ UNCHANGED <<clock, logsDirExists, logsDir, tampered, summary, run, call>>

NextWriters ==
    \E w \in Writers :
        \/ WriterStart(w)
        \/ WriterCheck(w)
        \/ WriterRead(w)
        \/ WriterWrite(w)

SpecWriters == InitWriters /\ [][NextWriters]_vars

(* A record that an append wrote is no longer in the ledger. *)
LostUpdate == Len(Lines(read_ledger_plaintext(ledgerFile))) < writers.appends

(* C19: a record is lost only when the read/rewrite cycles of two          *)
(* processes overlapped; while a single process seals, every record        *)
(* appended is in the ledger.                                              *)
C19_LostOnlyWhenInterleaved ==
    /\ LostUpdate => writers.overlapped
    /\ Cardinality(writers.started) <= 1 => ~LostUpdate

(* The lost update: two processes, overlapping cycles, two appends done    *)
(* and one record in the ledger.                                           *)
C19_Witness ==
    /\ LostUpdate
    /\ writers.overlapped
    /\ writers.started = Writers
    /\ writers.appends = 2
    /\ Len(Lines(read_ledger_plaintext(ledgerFile))) = 1

-----------------------------------------------------------------------------
(* The console of `run <contract>`: every line run_single and the run it   *)
(* starts print (println!, eprintln!, log_and_print), as the list of the   *)
(* pieces each format string is filled with.  Emoji prefixes are left out. *)

FullRuleResult(column_name, rule, result, details) ==
    [column |-> column_name, rule |-> rule, result |-> result, details |-> details]

ValidationOutcomeOf(results) ==
    ValidationOutcome(validation_passed(fail_count(results)),
                      pass_count(results), fail_count(results), results)

(* log_action: the message returned for the event. *)
log_action_message(event, contract) ==
    CASE event = "contract_validation_started" ->
            <<"Starting validation for '", contract, "'">>
      [] event = "contract_validation_completed" ->
            <<"Validation completed for '", contract, "'">>
      [] OTHER -> <<"Action: ", event>>

(* The lines of the movement logic of run_contract_validation and of the   *)
(* Connector write it calls.                                               *)
MovementLines(branch, write_ok, bytes, location) ==
    CASE branch = "skip_destination" ->
            << <<"Skipped movement: destination profile invalid">> >>
      [] branch = "skip_quarantine" ->
            << <<"Skipped movement: quarantine profile invalid">> >>
      [] branch = "write_destination" ->
            IF write_ok
            THEN << <<"Wrote ", ToString(bytes), " bytes to ", location>>,
                    <<"Data written to destination">> >>
            ELSE << <<"Failed to write to destination: ", "connector error">> >>
      [] branch = "write_quarantine" ->
            IF write_ok
            THEN << <<"Wrote ", ToString(bytes), " bytes to ", location>>,
                    <<"Data quarantined">> >>
            ELSE << <<"Failed to write to quarantine: ", "connector error">> >>
      [] OTHER -> <<>>

(* Mutant: the tally names the columns of the failed rules. *)
FailureLine_NamesColumns(outcome) ==
    <<"Validation completed with ", ToString(outcome.fail_count), " failures out of ",
      ToString(outcome.pass_count + outcome.fail_count), " checks">>
        \o [i \in 1..Len(outcome.results) |-> outcome.results[i].column]

(* run_single: the tally printed when the outcome did not pass. *)
FailureLine(outcome) ==
    <<"Validation completed with ", ToString(outcome.fail_count), " failures out of ",
      ToString(outcome.pass_count + outcome.fail_count), " checks">>

FailedLine(contract_name) ==
    <<"Validation failed for ", contract_name, ". Check logs for details.">>

(* How far a run gets: the contract file is absent; an error before the    *)
(* start event; an error after it (fetch, parse, rule evaluation); the     *)
(* source profile fails its probe; the run completes.                      *)
Stages == {"not_found", "early_error", "late_error", "source_invalid", "completed"}

run_single(in) ==
    LET name    == in.contract_name
        started == log_action_message("contract_validation_started", name)
        outcome == ValidationOutcomeOf(in.results)
        branch  == MovementBranch(outcome.passed, in.contract, in.profiles_ok, in.profiles_ok)
        message == log_action_message("contract_validation_completed", name)
    IN  CASE in.stage = "not_found" ->
                << <<"Contract '", name,
                     "' not found. Use 'pipa contract list' to see available contracts.">> >>
          [] in.stage = "early_error" -> <<FailedLine(name)>>
          [] in.stage = "late_error" -> <<started, FailedLine(name)>>
          [] in.stage = "source_invalid" -> <<started, FailedLine(name)>>
          [] OTHER ->
                <<started>>
                  \o MovementLines(branch, in.write_ok, in.bytes, Location)
                  \o <<message, message>>
                  \o (IF ~outcome.passed THEN <<FailureLine(outcome)>> ELSE <<>>)

(* -- inputs -- *)

DetailedResults ==
    {FullRuleResult(c, "not_null", st, d) :
        c \in {"ssn", "email"}, st \in RuleStatuses, d \in {None, Some("null_count=2")}}

DetailedResultLists == UNION {[1..n -> DetailedResults] : n \in 0..MaxRules}

RunInputs(results) ==
    {[contract_name |-> "orders", stage |-> stage, results |-> results,
      contract |-> SchemaContracts(Some(Source("local", Some(Location))), d, q),
      profiles_ok |-> ok, write_ok |-> w, bytes |-> 64] :
        stage \in Stages \ {"completed"}, d \in {None}, q \in {None},
        ok \in {TRUE}, w \in {TRUE}}
    \cup
    {[contract_name |-> "orders", stage |-> "completed", results |-> results,
      contract |-> SchemaContracts(Some(Source("local", Some(Location))), d, q),
      profiles_ok |-> ok, write_ok |-> w, bytes |-> 64] :
        d \in MovementConfigs, q \in MovementConfigs, ok \in BOOLEAN, w \in BOOLEAN}

(* Two result lists that differ at most in column, rule and details. *)
SameVerdicts(r1, r2) ==
    /\ Len(r1) = Len(r2)
    /\ \A i \in DOMAIN r1 : r1[i].result = r2[i].result

(* Two runs of the command whose inputs differ at most in the column,      *)
(* rule and details of their RuleResults.                                  *)
RunTwice ==
    /\ call.op = "none"
    /\ \E r1 \in DetailedResultLists, r2 \in DetailedResultLists :
          /\ SameVerdicts(r1, r2)
          /\ \E a \in RunInputs(r1) :
                call' = [op |-> "run_single", a |-> a, b |-> [a EXCEPT !.results = r2],
                         console_a |-> run_single(a),
                         console_b |-> run_single([a EXCEPT !.results = r2])]
    /\ UNCHANGED <<ledgerVars, run, writers>>

NextConsole == RunTwice

SpecConsole == Init /\ [][NextConsole]_vars

(* The column names, rule names and detail strings of a result list. *)
DetailTexts(results) ==
    UNION {{results[i].column, results[i].rule}
             \cup (IF results[i].details = None THEN {} ELSE {results[i].details[1]})
           : i \in DOMAIN results}

(* C20: no console line of a run carries a column name, a rule name or a   *)
(* detail string of one of its RuleResults, and two runs that differ only  *)
(* in those print the same lines.                                          *)
C20_NoRuleDetailOnConsole ==
    call.op = "run_single" =>
        /\ \A i \in DOMAIN call.console_a : \A k \in DOMAIN call.console_a[i] :
              call.console_a[i][k] \notin DetailTexts(call.a.results)
        /\ call.console_a = call.console_b

C20_Witness ==
    /\ call.op = "run_single"
    /\ call.a.stage = "completed"
    /\ call.a.results # <<>>
    /\ call.a.results[1] = FullRuleResult("ssn", "not_null", "fail", Some("null_count=2"))
    /\ call.b.results[1] = FullRuleResult("email", "not_null", "fail", None)
    /\ call.console_a[Len(call.console_a)] = FailureLine(ValidationOutcomeOf(call.a.results))

-----------------------------------------------------------------------------
(* Data movement: names and bytes of the written artifacts *)

MaxSecond == 2     \* UTC seconds the wall clock runs through

Csv == <<"c", "s", "v">>

Parquet == <<"p", "a", "r", "q", "u", "e", "t">>

Json == <<"j", "s", "o", "n">>

QuarantineSuffix == <<"_", "q", "u", "a", "r", "a", "n", "t", "i", "n", "e">>

(* Mutant: a timestamp that stops at the day. *)
Timestamp_DayOnly(second) == <<"2", "0", "2", "5", "1", "0", "0", "1">>

(* Utc::now().format("%Y%m%d_%H%M%S") *)
Timestamp(second) ==
    <<"2", "0", "2", "5", "1", "0", "0", "1", "_", "1", "2", "0", "0">>
      \o <<DigitChar(second \div 10), DigitChar(second % 10)>>

LastIndex(s, c) ==
    IF \E i \in 1..Len(s) : s[i] = c
    THEN CHOOSE i \in 1..Len(s) : s[i] = c /\ \A j \in (i + 1)..Len(s) : s[j] # c
    ELSE 0

(* Path::file_name: the last component. *)
file_name(path) == SubSeq(path, LastIndex(path, "/") + 1, Len(path))

(* Path::file_stem: the file name up to its last dot; the whole name when  *)
(* it has no dot or only a leading one.                                    *)
file_stem(path) ==
    LET name == file_name(path)
        k    == LastIndex(name, ".")
    IN  IF k <= 1 THEN name ELSE SubSeq(name, 1, k - 1)

(* Path::extension: what follows the last dot of the file name, if any. *)
extension(path) ==
    LET name == file_name(path)
        k    == LastIndex(name, ".")
    IN  IF k <= 1 THEN None ELSE Some(SubSeq(name, k + 1, Len(name)))

unwrap_or(option, default) == IF option = None THEN default ELSE option[1]

generate_filename(original_location, is_quarantine, format_override, now) ==
    LET timestamp == Timestamp(now)
        stem      == file_stem(original_location)
        ext       == unwrap_or(IF format_override # None THEN format_override
                               ELSE extension(original_location), Csv)
    IN  IF is_quarantine
        THEN stem \o <<"_">> \o timestamp \o QuarantineSuffix \o <<".">> \o ext
        ELSE stem \o <<"_">> \o timestamp \o <<".">> \o ext

build_destination_path(base_location, filename) ==
    IF EndsWith(base_location, <<"/">>) THEN base_location \o filename
    ELSE base_location \o <<"/">> \o filename

(* str::to_lowercase on the letters the sample formats use *)
to_lowercase(s) ==
    [i \in DOMAIN s |->
        CASE s[i] = "C" -> "c" [] s[i] = "S" -> "s" [] s[i] = "V" -> "v"
          [] OTHER -> s[i]]

(* serialize_dataframe: the format the bytes are written in, or the error. *)
serialize_dataframe(format) ==
    CASE to_lowercase(format) = Csv     -> OkOf("csv bytes")
      [] to_lowercase(format) = Parquet -> OkOf("parquet bytes")
      [] OTHER -> ErrOf("Unsupported output format")

(* write_success_data (is_quarantine = FALSE) and write_quarantine_data    *)
(* (TRUE) differ in that flag only: the artifact handed to the connector,  *)
(* or the serialization error.                                             *)
write_data(original_location, is_quarantine, target, now) ==
    LET filename == generate_filename(original_location, is_quarantine, target.format, now)
        format   == unwrap_or(target.format, Csv)
        data     == serialize_dataframe(format)
    IN  IF data.kind = "Err" THEN data
        ELSE OkOf([location |-> build_destination_path(target.location, filename),
                   data |-> data.value,
                   original_location |-> original_location,
                   is_quarantine |-> is_quarantine,
                   format |-> target.format,
                   at |-> now])

(* source locations: a Parquet file inside a directory, a file without    *)
(* extension, and a CSV artifact an earlier run wrote                      *)
OriginalLocations ==
    {<<"i", "n", "/", "a", ".", "p", "a", "r", "q", "u", "e", "t">>, <<"a">>,
     generate_filename(<<"a", ".", "c", "s", "v">>, FALSE, None, 0)}

OutputFormats == {None, Some(Csv), Some(<<"C", "S", "V">>), Some(Parquet), Some(Json)}

BaseLocations == {<<"o", "u", "t">>, <<"o", "u", "t", "/">>}

(* destination / quarantine sections: every format under one location,    *)
(* and the other spelling of the location                                  *)
Targets ==
    {[location |-> <<"o", "u", "t">>, format |-> format] : format \in OutputFormats}
       \cup {[location |-> location, format |-> None] : location \in BaseLocations}

(* writes: the artifact written last and the one written before it *)
NoMovement == [op |-> "movement", now |-> 0, writes |-> <<>>, last |-> OkOf("none")]

InitMovement ==
    /\ clock = 1
    /\ logsDirExists = FALSE
    /\ logsDir = <<>>
    /\ ledgerFile = NoFile
    /\ sealedBytes = <<>>
    /\ tampered = {}
    /\ summary = Returned(NewSummary)
    /\ run = NoRun
    /\ call = NoMovement
    /\ writers = <<>>

write_success_data(original_location, destination, now) ==
    write_data(original_location, FALSE, destination, now)

write_quarantine_data(original_location, quarantine, now) ==
    write_data(original_location, TRUE, quarantine, now)

(* the movement record once a write has returned *)
AfterWrite(movement, written) ==
    [movement EXCEPT
       !.last = written,
       !.writes = IF written.kind = "Err" THEN @
                  ELSE IF @ = <<>> THEN <<written.value>>
                  ELSE <<@[Len(@)], written.value>>]

WriteSuccessData ==
    /\ \E original_location \in OriginalLocations, destination \in Targets :
          call' = AfterWrite(call, write_success_data(original_location, destination, call.now))
    /\ UNCHANGED <<ledgerVars, run, writers>>

WriteQuarantineData ==
    /\ \E original_location \in OriginalLocations, quarantine \in Targets :
          call' = AfterWrite(call, write_quarantine_data(original_location, quarantine, call.now))
    /\ UNCHANGED <<ledgerVars, run, writers>>

(* the wall clock reaches the next second *)
SecondPasses ==
    /\ call.now < MaxSecond
    /\ call' = [call EXCEPT !.now = @ + 1]
    /\ UNCHANGED <<ledgerVars, run, writers>>

NextMovement ==
    \/ WriteSuccessData
    \/ WriteQuarantineData
    \/ SecondPasses

SpecMovement == InitMovement /\ [][NextMovement]_vars

(* C24: every written artifact is named stem, "_", the UTC timestamp to    *)
(* the second, "_quarantine" exactly for a quarantine write, ".", and the  *)
(* extension, inside the configured location; and two writes made in       *)
(* different UTC seconds never share a target path, so no earlier          *)
(* artifact is overwritten.                                                *)
C24_TimestampedNamesNeverCollide ==
    /\ \A i \in DOMAIN call.writes :
          LET w    == call.writes[i]
              name == file_name(w.location)
              stamped == file_stem(w.original_location) \o <<"_">> \o Timestamp(w.at)
              rest == SubSeq(name, Len(stamped) + 1, Len(name))
          IN  /\ StartsWith(name, stamped)
              /\ StartsWith(rest, QuarantineSuffix \o <<".">>) <=> w.is_quarantine
              /\ ~w.is_quarantine => StartsWith(rest, <<".">>)
              /\ LastIndex(rest, ".") = IF w.is_quarantine THEN Len(QuarantineSuffix) + 1 ELSE 1
              /\ w.location = <<"o", "u", "t", "/">> \o name
    /\ \A i, j \in DOMAIN call.writes :
          call.writes[i].at # call.writes[j].at
             => call.writes[i].location # call.writes[j].location

(* The same source is quarantined under the same configuration in two     *)
(* different seconds.                                                      *)
C24_Witness ==
    /\ Len(call.writes) = 2
    /\ call.writes[1].at # call.writes[2].at
    /\ call.writes[1].original_location = call.writes[2].original_location
    /\ call.writes[1].format = call.writes[2].format
    /\ call.writes[1].is_quarantine /\ call.writes[2].is_quarantine

(* C30: the extension in the name of every written artifact names the     *)
(* format its bytes were serialized in, whatever the extension of the      *)
(* source and the configured output format (none included).                *)
C30_ExtensionNamesFormat ==
    \A i \in DOMAIN call.writes :
       LET w   == call.writes[i]
           ext == to_lowercase(unwrap_or(extension(w.location), <<>>))
       IN  /\ w.data = "csv bytes" <=> ext = Csv
           /\ w.data = "parquet bytes" <=> ext = Parquet

(* The same statement on the writes whose configuration names a format.    *)
C30_ConfiguredFormatOnly ==
    \A i \in DOMAIN call.writes :
       LET w   == call.writes[i]
           ext == to_lowercase(unwrap_or(extension(w.location), <<>>))
       IN  w.format # None =>
              /\ w.data = "csv bytes" <=> ext = Csv
              /\ w.data = "parquet bytes" <=> ext = Parquet

-----------------------------------------------------------------------------
(* The run-all entry point of the command line *)

MaxContracts == 3  \* entries glob("contracts/*.toml") yields

(* What an entry of the glob turns out to be: a path that cannot be read   *)
(* (the Err arm), or a contract file whose run returns Ok with a passed    *)
(* or a failed outcome, returns Err, or whose TOML does not parse.         *)
EntryKinds == {"unreadable", "passes", "fails", "errors", "invalid_toml"}

ContractDirs == UNION {[1..n -> EntryKinds] : n \in 0..MaxContracts}

(* load_contract_for_file: read_to_string(..).unwrap_or_else(panic!) and   *)
(* toml::from_str(..).expect(..).                                          *)
load_contract_for_file(kind) == IF kind = "invalid_toml" THEN "panic" ELSE "loaded"

(* run_contract_validation as run_all sees it: the contract is loaded      *)
(* before anything that returns an outcome.                                *)
run_contract_validation(kind) ==
    IF load_contract_for_file(kind) = "panic" THEN "panic"
    ELSE CASE kind = "passes" -> "Ok passed"
           [] kind = "fails"  -> "Ok failed"
           [] OTHER -> "Err"

InitRunAll ==
    /\ clock = 1
    /\ logsDirExists = FALSE
    /\ logsDir = <<>>
    /\ ledgerFile = NoFile
    /\ sealedBytes = <<>>
    /\ tampered = {}
    /\ summary = Returned(NewSummary)
    /\ run = NoRun
    /\ call \in {[op |-> "run_all", pc |-> "loop", entries |-> dir, next |-> 1,
                  running |-> 0, started |-> <<>>, console |-> <<>>] : dir \in ContractDirs}
    /\ writers = <<>>

(* for entry in glob(..): the Err arm prints and goes on; the Ok arm       *)
(* calls run_contract_validation and awaits it.                            *)
NextEntry ==
    /\ call.pc = "loop"
    /\ call.running = 0
    /\ call.next <= Len(call.entries)
    /\ call' = IF call.entries[call.next] = "unreadable"
               THEN [call EXCEPT !.next = @ + 1,
                                 !.console = Append(@, "Error reading contract files")]
               ELSE [call EXCEPT !.running = call.next,
                                 !.started = Append(@, call.next)]
    /\ UNCHANGED <<ledgerVars, run, writers>>

(* The awaited run returns and its arm prints; or it panics, and the       *)
(* panic unwinds run_all.                                                  *)
ContractReturns ==
    /\ call.pc = "loop"
    /\ call.running # 0
    /\ LET result == run_contract_validation(call.entries[call.running])
       IN  call' =
             CASE result = "panic" -> [call EXCEPT !.pc = "panicked", !.running = 0]
               [] result = "Ok passed" ->
                    [call EXCEPT !.running = 0, !.next = @ + 1,
                                 !.console = Append(@, "Validation completed")]
               [] result = "Ok failed" ->
                    [call EXCEPT !.running = 0, !.next = @ + 1,
                                 !.console = @ \o <<"Validation completed",
                                                    "Validation completed with failures">>]
               [] OTHER ->
                    [call EXCEPT !.running = 0, !.next = @ + 1,
                                 !.console = Append(@, "Validation failed")]
    /\ UNCHANGED <<ledgerVars, run, writers>>

(* the iterator is exhausted: run_all returns *)
RunAllReturns ==
    /\ call.pc = "loop"
    /\ call.running = 0
    /\ call.next > Len(call.entries)
    /\ call' = [call EXCEPT !.pc = "returned"]
    /\ UNCHANGED <<ledgerVars, run, writers>>

NextRunAll ==
    \/ NextEntry
    \/ ContractReturns
    \/ RunAllReturns

SpecRunAll == InitRunAll /\ [][NextRunAll]_vars

(* how often run_all started the run of entry i *)
TimesStarted(i) == Cardinality({k \in DOMAIN call.started : call.started[k] = i})

(* C25: when run_all is over, every contract file of the directory has    *)
(* been run exactly once, in directory order and one at a time, whatever   *)
(* the earlier runs returned: a failing run does not prevent later ones.   *)
C25_EveryContractRunOnce ==
    /\ \A k \in DOMAIN call.started :
          /\ k > 1 => call.started[k - 1] < call.started[k]
          /\ call.running # 0 => call.running = call.started[Len(call.started)]
    /\ call.pc # "loop" =>
          \A i \in DOMAIN call.entries :
             call.entries[i] # "unreadable" => TimesStarted(i) = 1

-----------------------------------------------------------------------------
(* Progress of a run *)

(* run_contract_validation is one sequential async function that the       *)
(* caller awaits: a step that can be taken is taken.                       *)
SpecRunFair == InitRun /\ [][NextRun]_vars /\ WF_vars(NextRun)

(* C26: once execute_validation has finished and logged validation_summary *)
(* the run always reaches Complete: whatever the pre-flight checks and the *)
(* movement do, a run that is over has logged                              *)
(* contract_validation_completed and returned the ValidationOutcome.       *)
C26_SummaryEndsInComplete ==
    (/\ run.entry = "engine::contracts::run_contract_validation"
     /\ EventCount("validation_summary") = 1
     /\ run.pc = "done")
       => /\ EventCount("contract_validation_completed") = 1
          /\ run.result = Ok(Decided)

(* The same as progress, under fairness of the steps of the run. *)
C26_SummaryLeadsToComplete ==
    (/\ run.entry = "engine::contracts::run_contract_validation"
     /\ EventCount("validation_summary") = 1)
       ~> (/\ EventCount("contract_validation_completed") = 1
           /\ run.result = Ok(Decided))

(* The same, apart from the runs whose source fails its pre-flight probe.  *)
C26_CompleteOrSourceProbeFailed ==
    (/\ run.entry = "engine::contracts::run_contract_validation"
     /\ EventCount("validation_summary") = 1)
       ~> \/ /\ EventCount("contract_validation_completed") = 1
             /\ run.result = Ok(Decided)
          \/ /\ run.checked /\ ~run.source_valid
             /\ run.result = Err("Source profile connectivity failed")

-----------------------------------------------------------------------------
(* Appends and seals of one writer *)

(* C27: with one writer and a clock that does not go back, no audit line   *)
(* is appended to a shard after its hash was recorded: every recorded      *)
(* shard still holds exactly the bytes that were hashed, so that, nothing  *)
(* having been modified from outside, neither verify_all nor verify_date   *)
(* reports a Mismatched file.                                              *)
C27_NoAppendAfterSeal ==
    tampered = {} =>
        /\ \A f \in DOMAIN sealedBytes :
              f \in DOMAIN logsDir /\ logsDir[f] = sealedBytes[f]
        /\ verify_all(logsDirExists, logsDir, ledgerFile).mismatched = 0
        /\ \A date \in DateArgs :
              verify_date(date, clock, logsDirExists, logsDir, ledgerFile).mismatched = 0

(* Midnight passed inside a log_event of the run, which sealed the shard   *)
(* it had just written; the run has logged two more events since.          *)
C27_Witness ==
    /\ LogFilename(MaxDay - 1) \in DOMAIN sealedBytes
    /\ LogFilename(MaxDay) \in DOMAIN logsDir
    /\ Len(logsDir[LogFilename(MaxDay)]) >= 2
    /\ verify_all(logsDirExists, logsDir, ledgerFile).verified = 1

-----------------------------------------------------------------------------
(* The verdict of the logs-verify command *)

(* every shard of logs/ dated before today has its record in the ledger *)
PastShardsSealed ==
    \A d \in Days :
        (d < clock /\ LogFilename(d) \in DOMAIN logsDir)
           => ledger_contains(ledgerFile, LogFilename(d))

-----------------------------------------------------------------------------
(* Removal of the ledger file *)

(* Someone outside the program deletes logs/hash_ledger.enc. *)
RemoveLedger ==
    /\ run.pc = "idle"
    /\ ledgerFile.exists
    /\ ledgerFile' = NoFile
    /\ summary' = Returned(NewSummary)
    /\ UNCHANGED <<clock, logsDirExists, logsDir, sealedBytes, tampered, run, call, writers>>

NextRemoval ==
    \/ LogEvent
    \/ Seal
    \/ Tick
    \/ Tamper
    \/ RemoveLedger
    \/ VerifyAll
    \/ VerifyDate

SpecRemoval == Init /\ [][NextRemoval]_vars

(* C29: removing the ledger file does not let a changed shard pass         *)
(* verification: a shard that was sealed and whose bytes differ from the   *)
(* bytes hashed then is never recorded with the hash of its current bytes, *)
(* and neither verify_all nor verify_date reports it Verified.             *)
C29_RemovalDoesNotLaunder ==
    \A d \in Days :
        LET f == LogFilename(d)
        IN  (f \in DOMAIN sealedBytes /\ f \in DOMAIN logsDir
                /\ logsDir[f] # sealedBytes[f])
            => /\ \A i \in DOMAIN LedgerRecords(read_ledger_plaintext(ledgerFile)) :
                     LET record == LedgerRecords(read_ledger_plaintext(ledgerFile))[i]
                     IN  (Len(record) >= 3 /\ record[2] = f)
                            => record[3] # compute_sha256(logsDir[f])
               /\ \A fv \in FilesOf(verify_all(logsDirExists, logsDir, ledgerFile)) :
                     fv.filename = f => fv.status # "Verified"
               /\ \A fv \in FilesOf(verify_date([kind |-> "some", day |-> d], clock,
                                                logsDirExists, logsDir, ledgerFile)) :
                     fv.filename = f => fv.status # "Verified"

====
